---- MODULE Spec2Model ----
(***************************************************************************)
(* Model of reth's BundleStateWithReceipts                                 *)
(* (crates/storage/provider/src/bundle_state/bundle_state_with_receipts.rs)*)
(* a revm BundleState (aggregated account/storage diffs plus one revert    *)
(* layer per block), the receipts of the covered blocks and the number of  *)
(* the first covered block, with the range operations revert_to, split_at  *)
(* and extend, and write_to_db, which writes the bundle to the tables of a *)
(* database transaction.                                                   *)
(*                                                                         *)
(* Rust values are encoded as follows.                                     *)
(*   Option<T>      None is <<>>, Some(x) is <<x>>                         *)
(*   HashMap<K, V>  a function whose domain is the set of keys             *)
(*   Vec<T>         a sequence                                             *)
(*   enum           a tuple whose first element is the variant's name      *)
(***************************************************************************)
EXTENDS Integers, Sequences, FiniteSets, TLC

\* ------------------------------------------------------------------------
\* Bounds of the model
\* ------------------------------------------------------------------------

\* Largest number of receipt blocks, and of revert layers, a constructor input holds.
MaxBlocks == 2

\* Largest first_block a constructor or set_first_block is given.
MaxFirstBlock == 1

\* Largest number of operations called on a bundle after its construction.
MaxOps == 2

\* Largest number of EVM state commits of one execution.
MaxCommits == 4

\* Largest number of blocks of one execution.
MaxExecBlocks == 3

\* ------------------------------------------------------------------------
\* Option, HashMap
\* ------------------------------------------------------------------------

None == <<>>

Some(x) == <<x>>

IsSome(o) == o # <<>>

Unwrap(o) == o[1]

Min(a, b) == IF a <= b THEN a ELSE b

EmptyMap == [k \in {} |-> {}]

MapInsert(m, k, v) == [x \in (DOMAIN m) \cup {k} |-> IF x = k THEN v ELSE m[x]]

MapRemove(m, k) == [x \in (DOMAIN m) \ {k} |-> m[x]]

\* ------------------------------------------------------------------------
\* Primitive values
\* ------------------------------------------------------------------------

Addresses == {"a1"}

StorageKeys == {"k1", "k2"}

KECCAK_EMPTY == "keccak_empty"

\* reth_primitives::Account values the inputs are drawn from
RethAccounts ==
    { [nonce |-> 1, balance |-> 10, bytecode_hash |-> None],
      [nonce |-> 2, balance |-> 20, bytecode_hash |-> Some("h1")] }

\* reth_primitives::revm::compat::into_revm_acc
into_revm_acc(a) ==
    [ balance   |-> a.balance,
      nonce     |-> a.nonce,
      code_hash |-> IF IsSome(a.bytecode_hash) THEN Unwrap(a.bytecode_hash)
                                               ELSE KECCAK_EMPTY ]

\* reth_primitives::revm::compat::into_reth_acc
into_reth_acc(i) ==
    [ nonce         |-> i.nonce,
      balance       |-> i.balance,
      bytecode_hash |-> IF i.code_hash # KECCAK_EMPTY THEN Some(i.code_hash)
                                                       ELSE None ]

OptionMap(o, F(_)) == IF IsSome(o) THEN Some(F(Unwrap(o))) ELSE None

\* ------------------------------------------------------------------------
\* revm::db::states: AccountStatus, BundleAccount, AccountRevert, BundleState
\* ------------------------------------------------------------------------

\* AccountStatus::was_destroyed
was_destroyed(status) == status \in {"Destroyed", "DestroyedChanged", "DestroyedAgain"}

\* AccountStatus::is_storage_known
is_storage_known(status) ==
    status \in {"LoadedNotExisting", "InMemoryChange", "Destroyed",
                "DestroyedChanged", "DestroyedAgain"}

\* AccountStatus::transition
AccountStatus_transition(this, other) ==
    IF was_destroyed(this) /\ ~was_destroyed(other) THEN "DestroyedChanged"
    ELSE IF ~was_destroyed(this) /\ ~was_destroyed(other) /\ this = "InMemoryChange"
         THEN "InMemoryChange"
    ELSE other

\* StorageSlot::new_changed(original, present)
StorageSlot(original, present) ==
    [previous_or_original_value |-> original, present_value |-> present]

\* BundleAccount::new
BundleAccount(original_info, present_info, storage, status) ==
    [ info          |-> present_info,
      original_info |-> original_info,
      storage       |-> storage,
      status        |-> status ]

\* BundleAccount::revert: the account after the revert, and whether the entry is to
\* be removed from the bundle
BundleAccount_revert(acc, revert) ==
    LET kind == revert.account[1]
        st   == [acc EXCEPT !.status = revert.previous_status]
    IN  IF kind = "DeleteIt"
        THEN IF st.original_info = None
             THEN [ remove |-> TRUE,
                    account |-> [st EXCEPT !.info = None, !.storage = EmptyMap] ]
             ELSE [ remove |-> FALSE,
                    account |-> [st EXCEPT !.info = None,
                                   !.storage = [k \in DOMAIN st.storage |->
                                       [st.storage[k] EXCEPT !.present_value = 0]]] ]
        ELSE LET withInfo == IF kind = "RevertTo"
                             THEN [st EXCEPT !.info = Some(revert.account[2])]
                             ELSE st
                 removed == {k \in DOMAIN revert.storage : revert.storage[k][1] = "Destroyed"}
                 keys == ((DOMAIN withInfo.storage) \cup (DOMAIN revert.storage)) \ removed
                 slot(k) ==
                     IF k \in DOMAIN revert.storage
                     THEN IF k \in DOMAIN withInfo.storage
                          THEN [withInfo.storage[k] EXCEPT !.present_value = revert.storage[k][2]]
                          ELSE StorageSlot(revert.storage[k][2], revert.storage[k][2])
                     ELSE withInfo.storage[k]
             IN  [ remove |-> FALSE,
                   account |-> [withInfo EXCEPT !.storage = [k \in keys |-> slot(k)]] ]

EmptyBundleAccount == BundleAccount(None, None, EmptyMap, "LoadedNotExisting")

\* BundleState::revert_latest: pops the last revert layer, if any, and applies it
BundleState_revert_latest(b) ==
    IF Len(b.reverts) = 0 THEN b
    ELSE LET layer == b.reverts[Len(b.reverts)]
             res(a) == BundleAccount_revert(
                           IF a \in DOMAIN b.state THEN b.state[a] ELSE EmptyBundleAccount,
                           layer[a])
             kept == {a \in (DOMAIN b.state) \cup (DOMAIN layer) :
                         a \in DOMAIN layer => ~res(a).remove}
         IN  [ b EXCEPT
                 !.state = [a \in kept |-> IF a \in DOMAIN layer THEN res(a).account
                                                                 ELSE b.state[a]],
                 !.reverts = SubSeq(b.reverts, 1, Len(b.reverts) - 1) ]

\* BundleState::revert(num_transitions)
RECURSIVE BundleState_revert(_, _)
BundleState_revert(b, num_transitions) ==
    IF num_transitions = 0 \/ Len(b.reverts) = 0 THEN b
    ELSE BundleState_revert(BundleState_revert_latest(b), num_transitions - 1)

\* BundleState::take_n_reverts: the bundle left behind (the detached layers are
\* dropped by the caller)
BundleState_take_n_reverts(b, reverts_to_take) ==
    IF reverts_to_take > Len(b.reverts)
    THEN [b EXCEPT !.reverts = <<>>]
    ELSE [b EXCEPT !.reverts = SubSeq(b.reverts, reverts_to_take + 1, Len(b.reverts))]

\* BundleState::extend
BundleState_extend(this, other) ==
    LET \* a wiped revert of `other` takes the slots `this` holds for the address
        fixRevert(a, rev) ==
            IF rev.wipe_storage /\ a \in DOMAIN this.state
            THEN LET ts == this.state[a].storage
                 IN  [ rev EXCEPT
                         !.storage = [k \in (DOMAIN rev.storage) \cup (DOMAIN ts) |->
                                         IF k \in DOMAIN rev.storage THEN rev.storage[k]
                                         ELSE <<"Some", ts[k].present_value>>],
                         !.wipe_storage = ~was_destroyed(this.state[a].status) ]
            ELSE rev
        \* the layers of `other` are visited in order; the first wiped revert of an
        \* address drains the storage `this` holds for it
        drainedBefore(a, i) ==
            \E j \in 1..(i - 1) : a \in DOMAIN other.reverts[j] /\ other.reverts[j][a].wipe_storage
        drained(a) == drainedBefore(a, Len(other.reverts) + 1)
        thisAfter(a) ==
            IF drained(a) THEN [this.state[a] EXCEPT !.storage = EmptyMap] ELSE this.state[a]
        fixRevertAt(a, i) ==
            LET rev == other.reverts[i][a]
            IN  IF rev.wipe_storage /\ a \in DOMAIN this.state
                THEN IF drainedBefore(a, i)
                     THEN [rev EXCEPT !.wipe_storage = ~was_destroyed(this.state[a].status)]
                     ELSE fixRevert(a, rev)
                ELSE rev
        otherReverts == [i \in 1..Len(other.reverts) |->
                            [a \in DOMAIN other.reverts[i] |-> fixRevertAt(a, i)]]
        merged(a) ==
            IF a \notin DOMAIN other.state THEN thisAfter(a)
            ELSE IF a \notin DOMAIN this.state THEN other.state[a]
            ELSE LET t == thisAfter(a)
                     o == other.state[a]
                     storage ==
                         IF was_destroyed(o.status) THEN o.storage
                         ELSE [k \in (DOMAIN t.storage) \cup (DOMAIN o.storage) |->
                                  IF k \notin DOMAIN o.storage THEN t.storage[k]
                                  ELSE IF k \in DOMAIN t.storage
                                       THEN [t.storage[k] EXCEPT
                                               !.present_value = o.storage[k].present_value]
                                       ELSE o.storage[k]]
                 IN  [ t EXCEPT !.storage = storage,
                                !.info = o.info,
                                !.status = AccountStatus_transition(t.status, o.status) ]
    IN  [ state   |-> [a \in (DOMAIN this.state) \cup (DOMAIN other.state) |-> merged(a)],
          reverts |-> this.reverts \o otherReverts ]

\* ------------------------------------------------------------------------
\* revm::db::states: CacheAccount, TransitionAccount, and the merge of a block's
\* transitions into the bundle
\* ------------------------------------------------------------------------

\* StorageSlot::is_changed
is_changed(slot) == slot.previous_or_original_value # slot.present_value

TransitionAccount(info, status, previous_info, previous_status, storage, destroyed) ==
    [ info |-> info, status |-> status,
      previous_info |-> previous_info, previous_status |-> previous_status,
      storage |-> storage, storage_was_destroyed |-> destroyed ]

\* CacheAccount::selfdestruct: the new status of the cached account and the
\* transition, if any
CacheAccount_selfdestruct(status, info) ==
    LET new_status == IF was_destroyed(status) THEN "DestroyedAgain" ELSE "Destroyed"
    IN  [ status |-> new_status,
          transition |->
              IF status = "LoadedNotExisting" THEN None
              ELSE Some(TransitionAccount(None, new_status, info, status, EmptyMap, TRUE)) ]

\* CacheAccount::newly_created
CacheAccount_newly_created(status, info, new_info, new_storage) ==
    LET new_status == IF was_destroyed(status) THEN "DestroyedChanged" ELSE "InMemoryChange"
    IN  [ status |-> new_status,
          transition |->
              Some(TransitionAccount(Some(new_info), new_status, info, status,
                                     new_storage, FALSE)) ]

\* CacheAccount::change
CacheAccount_change(status, info, new_info, storage) ==
    LET new_status ==
            IF status = "Loaded" \/ status = "Changed" THEN "Changed"
            ELSE IF was_destroyed(status) THEN "DestroyedChanged"
            ELSE "InMemoryChange"
    IN  [ status |-> new_status,
          transition |->
              Some(TransitionAccount(Some(new_info), new_status, info, status,
                                     storage, FALSE)) ]

\* TransitionAccount::update: a later transition of the same block merged into an
\* earlier one
TransitionAccount_update(this, other) ==
    IF other.status \in {"Destroyed", "DestroyedAgain"}
    THEN [ this EXCEPT !.info = other.info, !.status = other.status,
                       !.storage = other.storage, !.storage_was_destroyed = TRUE ]
    ELSE LET dropped == { k \in (DOMAIN this.storage) \cap (DOMAIN other.storage) :
                            this.storage[k].previous_or_original_value =
                                other.storage[k].present_value }
             keys == ((DOMAIN this.storage) \cup (DOMAIN other.storage)) \ dropped
         IN  [ this EXCEPT
                 !.info = other.info,
                 !.status = other.status,
                 !.storage = [k \in keys |->
                     IF k \notin DOMAIN other.storage THEN this.storage[k]
                     ELSE IF k \notin DOMAIN this.storage THEN other.storage[k]
                     ELSE [this.storage[k] EXCEPT
                             !.present_value = other.storage[k].present_value]] ]

\* the helper extend_storage of update_and_create_revert: the update's slots over
\* this storage, the original value of a slot already held being kept
extend_storage(this_storage, storage_update) ==
    [k \in (DOMAIN this_storage) \cup (DOMAIN storage_update) |->
        IF k \notin DOMAIN storage_update THEN this_storage[k]
        ELSE IF k \notin DOMAIN this_storage THEN storage_update[k]
        ELSE [this_storage[k] EXCEPT !.present_value = storage_update[k].present_value]]

\* the helper previous_storage_from_update of update_and_create_revert
previous_storage_from_update(updated_storage) ==
    [k \in {x \in DOMAIN updated_storage : is_changed(updated_storage[x])} |->
        <<"Some", updated_storage[k].previous_or_original_value>>]

AccountRevert(account, storage, previous_status, wipe_storage) ==
    [ account |-> account, storage |-> storage,
      previous_status |-> previous_status, wipe_storage |-> wipe_storage ]

\* AccountRevert::new_selfdestructed
AccountRevert_new_selfdestructed(status, account, previous_storage) ==
    AccountRevert(account,
                  [k \in DOMAIN previous_storage |-> <<"Some", previous_storage[k].present_value>>],
                  status, TRUE)

\* AccountRevert::new_selfdestructed_again
AccountRevert_new_selfdestructed_again(status, account, previous_storage, updated_storage) ==
    AccountRevert(account,
                  [k \in (DOMAIN previous_storage) \cup (DOMAIN updated_storage) |->
                      IF k \in DOMAIN previous_storage
                      THEN <<"Some", previous_storage[k].present_value>>
                      ELSE <<"Destroyed">>],
                  status, FALSE)

\* AccountRevert::is_empty
AccountRevert_is_empty(revert) ==
    revert.account = <<"DoNothing">> /\ revert.storage = EmptyMap /\ ~revert.wipe_storage

\* AccountInfo::default
AccountInfo_default == [balance |-> 0, nonce |-> 0, code_hash |-> KECCAK_EMPTY]

\* BundleAccount::update_and_create_revert: the account afterwards, the revert if
\* any, and whether the call ran into one of its unreachable!() arms
BundleAccount_update_and_create_revert(this, transition) ==
    LET updated_info    == transition.info
        updated_storage == transition.storage
        updated_status  == transition.status
        info_revert ==
            IF this.info # updated_info
            THEN <<"RevertTo", IF IsSome(this.info) THEN Unwrap(this.info)
                                                    ELSE AccountInfo_default>>
            ELSE <<"DoNothing">>
        Result(account, revert) ==
            [ account |-> account,
              revert |-> IF IsSome(revert) /\ AccountRevert_is_empty(Unwrap(revert))
                         THEN None ELSE revert,
              unreachable |-> FALSE ]
        Unreachable == [account |-> this, revert |-> None, unreachable |-> TRUE]
        from_bundle == this.status \in {"InMemoryChange", "Changed", "LoadedEmptyEIP161",
                                        "Loaded"}
    IN  CASE updated_status = "Changed" ->
               IF this.status \in {"Changed", "Loaded"}
               THEN Result([this EXCEPT !.storage = extend_storage(this.storage, updated_storage),
                                        !.status = "Changed", !.info = updated_info],
                           Some(AccountRevert(info_revert,
                                              previous_storage_from_update(updated_storage),
                                              this.status, FALSE)))
               ELSE IF this.status = "LoadedEmptyEIP161"
               THEN Result([this EXCEPT !.status = "Changed", !.info = updated_info],
                           Some(AccountRevert(info_revert,
                                              previous_storage_from_update(updated_storage),
                                              this.status, FALSE)))
               ELSE Unreachable
          [] updated_status = "InMemoryChange" ->
               IF this.status \in {"Loaded", "InMemoryChange", "LoadedEmptyEIP161",
                                   "LoadedNotExisting"}
               THEN Result([this EXCEPT !.storage = extend_storage(this.storage, updated_storage),
                                        !.status = "InMemoryChange", !.info = updated_info],
                           Some(AccountRevert(
                                    IF this.status = "LoadedEmptyEIP161"
                                    THEN <<"RevertTo", AccountInfo_default>>
                                    ELSE IF this.status = "LoadedNotExisting"
                                    THEN <<"DeleteIt">>
                                    ELSE info_revert,
                                    previous_storage_from_update(updated_storage),
                                    this.status, FALSE)))
               ELSE Unreachable
          [] updated_status \in {"Loaded", "LoadedNotExisting", "LoadedEmptyEIP161"} ->
               Result(this, None)
          [] updated_status = "Destroyed" ->
               IF from_bundle
               THEN Result([this EXCEPT !.storage = EmptyMap, !.status = "Destroyed",
                                        !.info = None],
                           Some(AccountRevert_new_selfdestructed(this.status, info_revert,
                                                                 this.storage)))
               ELSE IF this.status = "LoadedNotExisting"
               THEN Result([this EXCEPT !.storage = EmptyMap], None)
               ELSE Unreachable
          [] updated_status = "DestroyedChanged" ->
               IF from_bundle
               THEN \* AccountRevert::new_selfdestructed_from_bundle
                    Result([this EXCEPT !.status = "DestroyedChanged", !.info = updated_info,
                                        !.storage = updated_storage],
                           Some([AccountRevert_new_selfdestructed_again(
                                     this.status, info_revert, this.storage, updated_storage)
                                 EXCEPT !.wipe_storage = TRUE]))
               ELSE IF this.status \in {"Destroyed", "LoadedNotExisting"}
               THEN Result([this EXCEPT !.status = "DestroyedChanged", !.info = updated_info,
                                        !.storage = extend_storage(this.storage, updated_storage)],
                           Some(AccountRevert(<<"DeleteIt">>,
                                              previous_storage_from_update(updated_storage),
                                              this.status, FALSE)))
               ELSE IF this.status = "DestroyedChanged"
               THEN IF transition.storage_was_destroyed
                    THEN Result([this EXCEPT !.status = "DestroyedChanged", !.info = updated_info,
                                             !.storage = extend_storage(EmptyMap, updated_storage)],
                                Some(AccountRevert(
                                         info_revert,
                                         [k \in (DOMAIN this.storage) \cup (DOMAIN updated_storage) |->
                                             IF k \in DOMAIN this.storage
                                             THEN <<"Some", this.storage[k].present_value>>
                                             ELSE <<"Destroyed">>],
                                         "DestroyedChanged", FALSE)))
                    ELSE Result([this EXCEPT !.status = "DestroyedChanged", !.info = updated_info,
                                             !.storage = extend_storage(this.storage, updated_storage)],
                                Some(AccountRevert(info_revert,
                                                   previous_storage_from_update(updated_storage),
                                                   "DestroyedChanged", FALSE)))
               ELSE IF this.status = "DestroyedAgain"
               THEN Result([this EXCEPT !.status = "DestroyedChanged", !.info = updated_info,
                                        !.storage = extend_storage(this.storage, updated_storage)],
                           Some(AccountRevert_new_selfdestructed_again(
                                    "DestroyedAgain", <<"DeleteIt">>, EmptyMap, updated_storage)))
               ELSE Unreachable
          [] updated_status = "DestroyedAgain" ->
               IF from_bundle
               THEN Result([this EXCEPT !.status = "DestroyedAgain", !.info = None,
                                        !.storage = EmptyMap],
                           Some([AccountRevert_new_selfdestructed_again(
                                     this.status, info_revert, this.storage, EmptyMap)
                                 EXCEPT !.wipe_storage = TRUE]))
               ELSE IF this.status \in {"Destroyed", "DestroyedAgain", "LoadedNotExisting"}
               THEN Result([this EXCEPT !.status = "DestroyedAgain", !.info = None], None)
               ELSE IF this.status = "DestroyedChanged"
               THEN Result([this EXCEPT !.status = "DestroyedAgain", !.info = None,
                                        !.storage = EmptyMap],
                           Some(AccountRevert_new_selfdestructed_again(
                                    "DestroyedChanged",
                                    <<"RevertTo", IF IsSome(this.info) THEN Unwrap(this.info)
                                                                       ELSE AccountInfo_default>>,
                                    this.storage, EmptyMap)))
               ELSE Unreachable

\* TransitionAccount::present_bundle_account
present_bundle_account(transition) ==
    BundleAccount(transition.previous_info, transition.info, transition.storage,
                  transition.status)

\* TransitionAccount::original_bundle_account
original_bundle_account(transition) ==
    BundleAccount(transition.previous_info, transition.previous_info, EmptyMap,
                  transition.previous_status)

\* BundleState::apply_transitions_and_create_reverts with BundleRetention::Reverts:
\* every transition of the block is folded into the bundle and the reverts it leaves
\* are pushed as one new layer
BundleState_apply_transitions_and_create_reverts(b, transitions) ==
    LET res(a) ==
            IF a \in DOMAIN b.state
            THEN BundleAccount_update_and_create_revert(b.state[a], transitions[a])
            ELSE LET r == BundleAccount_update_and_create_revert(
                              original_bundle_account(transitions[a]), transitions[a])
                 IN  [r EXCEPT !.account = present_bundle_account(transitions[a])]
        inserted == {a \in DOMAIN transitions : a \notin DOMAIN b.state /\ IsSome(res(a).revert)}
        reverted == {a \in DOMAIN transitions : IsSome(res(a).revert)}
    IN  [ state   |-> [a \in (DOMAIN b.state) \cup inserted |->
                          IF a \in DOMAIN transitions THEN res(a).account ELSE b.state[a]],
          reverts |-> Append(b.reverts, [a \in reverted |-> Unwrap(res(a).revert)]),
          unreachable |-> \E a \in DOMAIN transitions : res(a).unreachable ]

\* BundleAccount::storage_slot
BundleAccount_storage_slot(acc, slot) ==
    IF slot \in DOMAIN acc.storage THEN Some(acc.storage[slot].present_value)
    ELSE IF is_storage_known(acc.status) THEN Some(0)
    ELSE None

\* BundleState::new: every entry gets status Changed; every revert gets previous
\* status Changed and no wipe
BundleState_new(state, reverts) ==
    [ state   |-> [a \in DOMAIN state |->
                      BundleAccount(state[a][1], state[a][2],
                                    [k \in DOMAIN state[a][3] |->
                                        StorageSlot(state[a][3][k][1], state[a][3][k][2])],
                                    "Changed")],
      reverts |-> [i \in 1..Len(reverts) |->
                      [a \in DOMAIN reverts[i] |->
                          [ account |-> IF reverts[i][a][1] = None THEN <<"DoNothing">>
                                        ELSE IF Unwrap(reverts[i][a][1]) = None
                                             THEN <<"DeleteIt">>
                                        ELSE <<"RevertTo", Unwrap(Unwrap(reverts[i][a][1]))>>,
                            storage |-> [k \in DOMAIN reverts[i][a][2] |->
                                            <<"Some", reverts[i][a][2][k]>>],
                            previous_status |-> "Changed",
                            wipe_storage |-> FALSE ]]] ]

\* BundleState::default
BundleState_default == [state |-> EmptyMap, reverts |-> <<>>]

\* ------------------------------------------------------------------------
\* reth_primitives: Receipt, Receipts
\* ------------------------------------------------------------------------

Receipt1 == [success |-> TRUE, logs |-> <<"l1">>]

Receipt2 == [success |-> FALSE, logs |-> <<"l2", "l3">>]

\* A block's receipt slots; None is a pruned receipt
ReceiptBlocks == { <<Some(Receipt1)>>, <<None, Some(Receipt2)>> }

RECURSIVE Flatten(_)
Flatten(seqs) == IF seqs = <<>> THEN <<>> ELSE Head(seqs) \o Flatten(Tail(seqs))

RECURSIVE FilterSome(_)
FilterSome(opts) ==
    IF opts = <<>> THEN <<>>
    ELSE IF IsSome(Head(opts)) THEN <<Unwrap(Head(opts))>> \o FilterSome(Tail(opts))
    ELSE FilterSome(Tail(opts))

\* reth_primitives::logs_bloom, abstracted to the set of the logs folded into it
logs_bloom(logs) == {logs[i] : i \in 1..Len(logs)}

\* Receipts::root_slow(index), abstracted to a tagged copy of the block's receipts
Receipts_root_slow(receipt_vec, index) == Some(<<"root", receipt_vec[index + 1]>>)

\* ------------------------------------------------------------------------
\* BundleStateWithReceipts
\* ------------------------------------------------------------------------

\* BundleStateWithReceipts::new
new(bundle_, receipts_, first_block_) ==
    [bundle |-> bundle_, receipts |-> receipts_, first_block |-> first_block_]

\* The keys of a map keyed by block number, in ascending order: one of the orders
\* in which a HashMap may yield its entries
RECURSIVE SortedKeys(_)
SortedKeys(S) ==
    IF S = {} THEN <<>>
    ELSE LET m == CHOOSE x \in S : \A y \in S : x <= y
         IN  <<m>> \o SortedKeys(S \ {m})

\* collect() of (key, value) pairs into a HashMap: a later pair replaces an earlier
\* one with the same key
RECURSIVE CollectMap(_)
CollectMap(pairs) ==
    IF pairs = <<>> THEN EmptyMap
    ELSE MapInsert(CollectMap(SubSeq(pairs, 1, Len(pairs) - 1)),
                   pairs[Len(pairs)][1], pairs[Len(pairs)][2])

\* Vec::sort_unstable_by_key on (key, value) pairs
RECURSIVE sort_unstable_by_key(_)
sort_unstable_by_key(v) ==
    IF v = <<>> THEN <<>>
    ELSE LET i == CHOOSE x \in 1..Len(v) : \A y \in 1..Len(v) : v[x][1] <= v[y][1]
         IN  <<v[i]>> \o sort_unstable_by_key(SubSeq(v, 1, i - 1) \o SubSeq(v, i + 1, Len(v)))

\* new_init installing the layers in the order the map yields them
new_init_unsorted(state_init, revert_init, iteration, receipts_, first_block_) ==
    LET reverts == [i \in 1..Len(iteration) |-> <<iteration[i], revert_init[iteration[i]]>>]
        bundle_ == BundleState_new(
            [a \in DOMAIN state_init |->
                << OptionMap(state_init[a][1], into_revm_acc),
                   OptionMap(state_init[a][2], into_revm_acc),
                   state_init[a][3] >>],
            [i \in 1..Len(reverts) |->
                [a \in DOMAIN reverts[i][2] |->
                    << IF IsSome(reverts[i][2][a][1])
                       THEN Some(OptionMap(Unwrap(reverts[i][2][a][1]), into_revm_acc))
                       ELSE None,
                       CollectMap(reverts[i][2][a][2]) >>]])
    IN  [bundle |-> bundle_, receipts |-> receipts_, first_block |-> first_block_]

\* BundleStateWithReceipts::new_init; revert_init, a HashMap keyed by block number,
\* yields its entries in the order iteration, and they are sorted by block number
new_init(state_init, revert_init, iteration, receipts_, first_block_) ==
    LET reverts == sort_unstable_by_key(
                       [i \in 1..Len(iteration) |->
                           <<iteration[i], revert_init[iteration[i]]>>])
        bundle_ == BundleState_new(
            [a \in DOMAIN state_init |->
                << OptionMap(state_init[a][1], into_revm_acc),
                   OptionMap(state_init[a][2], into_revm_acc),
                   state_init[a][3] >>],
            [i \in 1..Len(reverts) |->
                [a \in DOMAIN reverts[i][2] |->
                    << IF IsSome(reverts[i][2][a][1])
                       THEN Some(OptionMap(Unwrap(reverts[i][2][a][1]), into_revm_acc))
                       ELSE None,
                       CollectMap(reverts[i][2][a][2]) >>]])
    IN  [bundle |-> bundle_, receipts |-> receipts_, first_block |-> first_block_]

\* account returning no account for an address whose account the bundle deleted
account_absent_as_unknown(self, address) ==
    IF address \in DOMAIN self.bundle.state /\ IsSome(self.bundle.state[address].info)
    THEN Some(OptionMap(self.bundle.state[address].info, into_reth_acc))
    ELSE None

\* storage returning no value for a slot whose value is zero
storage_zero_as_unknown(self, address, storage_key) ==
    IF address \in DOMAIN self.bundle.state
    THEN LET slot == BundleAccount_storage_slot(self.bundle.state[address], storage_key)
         IN  IF slot = Some(0) THEN None ELSE slot
    ELSE None

\* BundleStateWithReceipts::account
account(self, address) ==
    IF address \in DOMAIN self.bundle.state
    THEN Some(OptionMap(self.bundle.state[address].info, into_reth_acc))
    ELSE None

\* BundleStateWithReceipts::storage
storage(self, address, storage_key) ==
    IF address \in DOMAIN self.bundle.state
    THEN BundleAccount_storage_slot(self.bundle.state[address], storage_key)
    ELSE None

\* keccak256 of an address or of a storage key, as a 256-bit number: the hashes are
\* distinct and are not in the order of what they hash
keccak256(x) ==
    CASE x = "a1" -> 7
      [] x = "a2" -> 3
      [] x = "k1" -> 9
      [] x = "k2" -> 2

\* HashedStorage::new
HashedStorage_new(wiped) ==
    [ non_zero_valued_storage |-> <<>>, zero_valued_slots |-> {}, wiped |-> wiped,
      sorted |-> TRUE ]

\* HashedStorage::insert_zero_valued_slot
insert_zero_valued_slot(this, slot) ==
    [this EXCEPT !.zero_valued_slots = @ \cup {slot}]

\* HashedStorage::insert_non_zero_valued_storage
insert_non_zero_valued_storage(this, slot, value) ==
    [this EXCEPT !.non_zero_valued_storage = Append(@, <<slot, value>>),
                 !.sorted = FALSE]

\* HashedStorage::sort_storage
sort_storage(this) ==
    IF this.sorted THEN this
    ELSE [this EXCEPT !.non_zero_valued_storage = sort_unstable_by_key(@),
                      !.sorted = TRUE]

\* HashedPostState::default
HashedPostState_default ==
    [ accounts |-> <<>>, destroyed_accounts |-> {}, storages |-> EmptyMap,
      sorted |-> TRUE ]

\* HashedPostState::insert_account
insert_account(this, hashed_address, acc) ==
    [this EXCEPT !.accounts = Append(@, <<hashed_address, acc>>), !.sorted = FALSE]

\* HashedPostState::insert_destroyed_account
insert_destroyed_account(this, hashed_address) ==
    [this EXCEPT !.destroyed_accounts = @ \cup {hashed_address}]

\* HashedPostState::insert_hashed_storage
insert_hashed_storage(this, hashed_address, hashed_storage_) ==
    [this EXCEPT !.sorted = @ /\ hashed_storage_.sorted,
                 !.storages = MapInsert(@, hashed_address, hashed_storage_)]

\* HashedPostState::sorted
HashedPostState_sorted(this) ==
    IF this.sorted THEN this
    ELSE [this EXCEPT !.storages = [h \in DOMAIN @ |-> sort_storage(@[h])],
                      !.accounts = sort_unstable_by_key(@),
                      !.sorted = TRUE]

\* The storage of a bundle account hashed with its slots taken by original value
RECURSIVE hashed_storage_by_original(_, _, _)
hashed_storage_by_original(acc, keys, n) ==
    IF n = 0 THEN HashedStorage_new(was_destroyed(acc.status))
    ELSE LET hashed_storage_ == hashed_storage_by_original(acc, keys, n - 1)
             key == keys[n]
             hashed_key == keccak256(key)
         IN  IF key \notin DOMAIN acc.storage THEN hashed_storage_
             ELSE IF acc.storage[key].previous_or_original_value = 0
             THEN insert_zero_valued_slot(hashed_storage_, hashed_key)
             ELSE insert_non_zero_valued_storage(hashed_storage_, hashed_key,
                                                 acc.storage[key].previous_or_original_value)

\* The storage of a bundle account hashed and marked wiped when the account is absent
RECURSIVE hashed_storage_wiped_if_absent(_, _, _)
hashed_storage_wiped_if_absent(acc, keys, n) ==
    IF n = 0 THEN HashedStorage_new(acc.info = None)
    ELSE LET hashed_storage_ == hashed_storage_wiped_if_absent(acc, keys, n - 1)
             key == keys[n]
             hashed_key == keccak256(key)
         IN  IF key \notin DOMAIN acc.storage THEN hashed_storage_
             ELSE IF acc.storage[key].present_value = 0
             THEN insert_zero_valued_slot(hashed_storage_, hashed_key)
             ELSE insert_non_zero_valued_storage(hashed_storage_, hashed_key,
                                                 acc.storage[key].present_value)

\* The inner loop of hash_state_slow over account.storage.iter(), which yields the
\* slots of the account in the order of keys, by the first n keys: the wipe marker is
\* set from the status, and each slot is inserted by the hash of its key, as a
\* zero-valued slot or with its present value
RECURSIVE hashed_storage(_, _, _)
hashed_storage(acc, keys, n) ==
    IF n = 0 THEN HashedStorage_new(was_destroyed(acc.status))
    ELSE LET hashed_storage_ == hashed_storage(acc, keys, n - 1)
             key == keys[n]
             hashed_key == keccak256(key)
         IN  IF key \notin DOMAIN acc.storage THEN hashed_storage_
             ELSE IF acc.storage[key].present_value = 0
             THEN insert_zero_valued_slot(hashed_storage_, hashed_key)
             ELSE insert_non_zero_valued_storage(hashed_storage_, hashed_key,
                                                 acc.storage[key].present_value)

\* The body of the outer loop with the account put in the destroyed set by its status
hash_account_by_status(hashed_state, address, acc, keys) ==
    LET hashed_address == keccak256(address)
        inserted == IF ~was_destroyed(acc.status) /\ IsSome(acc.info)
                    THEN insert_account(hashed_state, hashed_address,
                                        into_reth_acc(Unwrap(acc.info)))
                    ELSE insert_destroyed_account(hashed_state, hashed_address)
    IN  insert_hashed_storage(inserted, hashed_address,
                              hashed_storage(acc, keys, Len(keys)))

\* The body of the outer loop of hash_state_slow for one entry of the bundle
hash_account(hashed_state, address, acc, keys) ==
    LET hashed_address == keccak256(address)
        inserted == IF IsSome(acc.info)
                    THEN insert_account(hashed_state, hashed_address,
                                        into_reth_acc(Unwrap(acc.info)))
                    ELSE insert_destroyed_account(hashed_state, hashed_address)
    IN  insert_hashed_storage(inserted, hashed_address,
                              hashed_storage(acc, keys, Len(keys)))

\* The outer loop of hash_state_slow over self.bundle.state(), which yields the
\* entries in the order of addresses, by the first n addresses
RECURSIVE hash_accounts(_, _, _, _)
hash_accounts(self, addresses, keys, n) ==
    IF n = 0 THEN HashedPostState_default
    ELSE hash_account(hash_accounts(self, addresses, keys, n - 1), addresses[n],
                      self.bundle.state[addresses[n]], keys)

\* hash_state_slow returning the projection as the loop left it
hash_state_slow_unsorted(self, addresses, keys) ==
    hash_accounts(self, addresses, keys, Len(addresses))

\* BundleStateWithReceipts::hash_state_slow, the maps iterated in the orders
\* addresses and keys
hash_state_slow(self, addresses, keys) ==
    HashedPostState_sorted(hash_accounts(self, addresses, keys, Len(addresses)))

\* The hashes the tries are keyed by
HashedAddresses == { keccak256(address) : address \in {"a1", "a2"} }

HashedKeys == { keccak256(key) : key \in {"k1", "k2"} }

\* The root of a storage trie: it stands for the slots with a non-zero value, and
\* two roots are equal exactly when the tries hold the same slots
storage_root(slots) ==
    { <<hashed_key, slots[hashed_key]>> :
        hashed_key \in { x \in DOMAIN slots : slots[x] # 0 } }

\* HashedPostState::construct_prefix_sets: the hashed addresses of the accounts, of
\* the destroyed accounts and of the storages, and per hashed address the hashed
\* keys of its slots, zero-valued or not
construct_prefix_sets(hashed_post_state) ==
    [ account |->
          { hashed_post_state.accounts[i][1] : i \in 1..Len(hashed_post_state.accounts) }
              \cup hashed_post_state.destroyed_accounts
              \cup DOMAIN hashed_post_state.storages,
      storage |->
          [h \in DOMAIN hashed_post_state.storages |->
              { hashed_post_state.storages[h].non_zero_valued_storage[i][1] :
                  i \in 1..Len(hashed_post_state.storages[h].non_zero_valued_storage) }
                  \cup hashed_post_state.storages[h].zero_valued_slots] ]

\* HashedPostStateCursorFactory, the account cursor: the account of the post state,
\* none for a destroyed account, else the account of the database
HashedPostStateAccount(tx, hashed_post_state, hashed_address) ==
    LET places == { i \in 1..Len(hashed_post_state.accounts) :
                      hashed_post_state.accounts[i][1] = hashed_address }
    IN  IF places # {} THEN Some(hashed_post_state.accounts[CHOOSE i \in places : TRUE][2])
        ELSE IF hashed_address \in hashed_post_state.destroyed_accounts THEN None
        ELSE IF hashed_address \in DOMAIN tx.HashedAccount
        THEN Some(tx.HashedAccount[hashed_address])
        ELSE None

\* HashedPostStateCursorFactory, the storage cursor: the value of the post state,
\* zero for a zero-valued slot and for a slot of a wiped storage, else the value of
\* the database
HashedPostStateSlot(tx, hashed_post_state, hashed_address, hashed_key) ==
    LET known == hashed_address \in DOMAIN hashed_post_state.storages
        hashed_storage_ == hashed_post_state.storages[hashed_address]
        places == IF known
                  THEN { i \in 1..Len(hashed_storage_.non_zero_valued_storage) :
                           hashed_storage_.non_zero_valued_storage[i][1] = hashed_key }
                  ELSE {}
        stored == IF /\ hashed_address \in DOMAIN tx.HashedStorage
                     /\ hashed_key \in DOMAIN tx.HashedStorage[hashed_address]
                  THEN tx.HashedStorage[hashed_address][hashed_key] ELSE 0
    IN  IF places # {}
        THEN hashed_storage_.non_zero_valued_storage[CHOOSE i \in places : TRUE][2]
        ELSE IF known /\ hashed_key \in hashed_storage_.zero_valued_slots THEN 0
        ELSE IF known /\ hashed_storage_.wiped THEN 0
        ELSE stored

\* StateRoot::root of a calculator: the subtries of the changed prefixes are walked
\* again through the hashed cursors, the others are taken from the trie stored in the
\* database; the storage trie of a wiped storage is dropped before its slots are
\* walked
StateRoot_root(calculator) ==
    LET t == calculator.tx
        post == calculator.hashed_post_state
        wiped(h) == h \in DOMAIN post.storages /\ post.storages[h].wiped
        walked_slot(h, k) ==
            IF h \in DOMAIN calculator.changed_storage_prefixes
               /\ k \in calculator.changed_storage_prefixes[h]
            THEN HashedPostStateSlot(t, post, h, k)
            ELSE IF wiped(h) THEN 0
            ELSE IF h \in DOMAIN t.StoragesTrie /\ k \in DOMAIN t.StoragesTrie[h]
            THEN t.StoragesTrie[h][k]
            ELSE 0
        walked(h) ==
            LET acc == HashedPostStateAccount(t, post, h)
            IN  IF acc = None THEN None
                ELSE Some(<<h, Unwrap(acc),
                            storage_root([k \in HashedKeys |-> walked_slot(h, k)])>>)
        leaf(h) ==
            IF h \in calculator.changed_account_prefixes THEN walked(h)
            ELSE IF h \in DOMAIN t.AccountsTrie THEN Some(t.AccountsTrie[h])
            ELSE None
    IN  { Unwrap(leaf(h)) : h \in { x \in HashedAddresses : leaf(x) # None } }

\* StateRoot::root_with_updates: the root, and the trie updates, which are of the
\* changed prefixes and of the destroyed accounts
StateRoot_root_with_updates(calculator) ==
    << StateRoot_root(calculator),
       [ changed |-> calculator.changed_account_prefixes,
         destroyed |-> calculator.destroyed_accounts ] >>

\* state_root_calculator not passing on the changed storage prefixes
state_root_calculator_no_storage_prefixes(self, tx, hashed_post_state) ==
    LET prefix_sets == construct_prefix_sets(hashed_post_state)
    IN  [ tx |-> tx,
          hashed_post_state |-> hashed_post_state,
          changed_account_prefixes |-> prefix_sets.account,
          changed_storage_prefixes |-> EmptyMap,
          destroyed_accounts |-> hashed_post_state.destroyed_accounts ]

\* BundleStateWithReceipts::state_root_calculator
state_root_calculator(self, tx, hashed_post_state) ==
    LET prefix_sets == construct_prefix_sets(hashed_post_state)
    IN  [ tx |-> tx,
          hashed_post_state |-> hashed_post_state,
          changed_account_prefixes |-> prefix_sets.account,
          changed_storage_prefixes |-> prefix_sets.storage,
          destroyed_accounts |-> hashed_post_state.destroyed_accounts ]

\* BundleStateWithReceipts::state_root_slow, the maps iterated in the orders
\* addresses and keys
state_root_slow(self, tx, addresses, keys) ==
    LET hashed_post_state == hash_state_slow(self, addresses, keys)
    IN  StateRoot_root(state_root_calculator(self, tx, hashed_post_state))

\* BundleStateWithReceipts::state_root_slow_with_updates
state_root_slow_with_updates(self, tx, addresses, keys) ==
    LET hashed_post_state == hash_state_slow(self, addresses, keys)
    IN  StateRoot_root_with_updates(state_root_calculator(self, tx, hashed_post_state))

\* BundleStateWithReceipts::set_first_block
set_first_block(self, first_block_) == [self EXCEPT !.first_block = first_block_]

\* len counting the revert layers
len_of_reverts(self) == Len(self.bundle.reverts)

\* BundleStateWithReceipts::len
len(self) == Len(self.receipts)

\* BundleStateWithReceipts::is_empty
is_empty(self) == len(self) = 0

\* block_number_to_index with the first comparison off by one (>= for >): the first
\* block of the range is not found
block_number_to_index_first_excluded(self, block_number) ==
    IF self.first_block >= block_number THEN None
    ELSE IF block_number - self.first_block >= Len(self.receipts) THEN None
    ELSE Some(block_number - self.first_block)

\* BundleStateWithReceipts::block_number_to_index; the index counts from 0
block_number_to_index(self, block_number) ==
    IF self.first_block > block_number THEN None
    ELSE IF block_number - self.first_block >= Len(self.receipts) THEN None
    ELSE Some(block_number - self.first_block)

\* logs falling back to an empty iterator, as receipts_by_block falls back to an
\* empty slice, where it has to return None
logs_or_empty(self, block_number) ==
    LET index == block_number_to_index(self, block_number)
    IN  IF index = None THEN Some(<<>>)
        ELSE LET rs == FilterSome(self.receipts[Unwrap(index) + 1])
             IN  Some(Flatten([i \in 1..Len(rs) |-> rs[i].logs]))

\* logs yielding the logs of the receipts from the last one to the first
logs_receipts_reversed(self, block_number) ==
    LET index == block_number_to_index(self, block_number)
    IN  IF index = None THEN None
        ELSE LET rs == FilterSome(self.receipts[Unwrap(index) + 1])
             IN  Some(Flatten([i \in 1..Len(rs) |-> rs[Len(rs) + 1 - i].logs]))

\* BundleStateWithReceipts::logs
logs(self, block_number) ==
    LET index == block_number_to_index(self, block_number)
    IN  IF index = None THEN None
        ELSE LET rs == FilterSome(self.receipts[Unwrap(index) + 1])
             IN  Some(Flatten([i \in 1..Len(rs) |-> rs[i].logs]))

\* BundleStateWithReceipts::block_logs_bloom
block_logs_bloom(self, block_number) ==
    LET l == logs(self, block_number)
    IN  IF l = None THEN None ELSE Some(logs_bloom(Unwrap(l)))

\* BundleStateWithReceipts::receipts_root_slow
receipts_root_slow(self, block_number) ==
    LET index == block_number_to_index(self, block_number)
    IN  IF index = None THEN None ELSE Receipts_root_slow(self.receipts, Unwrap(index))

\* receipts_by_block falling back to the receipts of the last block
receipts_by_block_or_last(self, block_number) ==
    LET index == block_number_to_index(self, block_number)
    IN  IF index = None
        THEN IF self.receipts = <<>> THEN <<>> ELSE self.receipts[Len(self.receipts)]
        ELSE self.receipts[Unwrap(index) + 1]

\* BundleStateWithReceipts::receipts_by_block
receipts_by_block(self, block_number) ==
    LET index == block_number_to_index(self, block_number)
    IN  IF index = None THEN <<>> ELSE self.receipts[Unwrap(index) + 1]

\* revert_to taking a block before the range as "revert everything": it empties the
\* bundle and returns true
revert_to_past_reverts_all(self, block_number) ==
    LET index == block_number_to_index(self, block_number)
    IN  IF index = None
        THEN IF block_number < self.first_block
             THEN [ result |-> TRUE,
                    self   |-> [ self EXCEPT
                                   !.receipts = <<>>,
                                   !.bundle = BundleState_revert(self.bundle, len(self)) ] ]
             ELSE [result |-> FALSE, self |-> self]
        ELSE LET new_len == Unwrap(index) + 1
                 rm_trx  == len(self) - new_len
             IN  [ result |-> TRUE,
                   self   |-> [ self EXCEPT
                                  !.receipts = SubSeq(self.receipts, 1, new_len),
                                  !.bundle = BundleState_revert(self.bundle, rm_trx) ] ]

\* revert_to without the "+ 1": the given block does not stay in the bundle
revert_to_block_excluded(self, block_number) ==
    LET index == block_number_to_index(self, block_number)
    IN  IF index = None THEN [result |-> FALSE, self |-> self]
        ELSE LET new_len == Unwrap(index)
                 rm_trx  == len(self) - new_len
             IN  [ result |-> TRUE,
                   self   |-> [ self EXCEPT
                                  !.receipts = SubSeq(self.receipts, 1, new_len),
                                  !.bundle = BundleState_revert(self.bundle, rm_trx) ] ]

\* revert_to counting the layers to pop from the index, not from the new length: one
\* layer more than the blocks removed
revert_to_one_more_layer(self, block_number) ==
    LET index == block_number_to_index(self, block_number)
    IN  IF index = None THEN [result |-> FALSE, self |-> self]
        ELSE LET new_len == Unwrap(index) + 1
                 rm_trx  == len(self) - Unwrap(index)
             IN  [ result |-> TRUE,
                   self   |-> [ self EXCEPT
                                  !.receipts = SubSeq(self.receipts, 1, new_len),
                                  !.bundle = BundleState_revert(self.bundle, rm_trx) ] ]

\* BundleStateWithReceipts::revert_to: the returned bool and the value afterwards
revert_to(self, block_number) ==
    LET index == block_number_to_index(self, block_number)
    IN  IF index = None THEN [result |-> FALSE, self |-> self]
        ELSE LET new_len == Unwrap(index) + 1
                 rm_trx  == len(self) - new_len
             IN  [ result |-> TRUE,
                   self   |-> [ self EXCEPT
                                  !.receipts = SubSeq(self.receipts, 1, new_len),
                                  !.bundle = BundleState_revert(self.bundle, rm_trx) ] ]

\* split_at reverting the lower half to `at` instead of `at - 1`
split_at_lower_keeps_at(self, at) ==
    IF at = self.first_block
    THEN [panic |-> FALSE, lower |-> None, higher |-> self]
    ELSE IF at = 0
    THEN [panic |-> TRUE, lower |-> None, higher |-> self]
    ELSE LET lower_state == revert_to(self, at).self
             at_idx == block_number_to_index(self, at)
         IN  IF at_idx = None
             THEN [panic |-> TRUE, lower |-> None, higher |-> self]
             ELSE [ panic  |-> FALSE,
                    lower  |-> Some(lower_state),
                    higher |-> [ bundle |-> BundleState_take_n_reverts(self.bundle,
                                                                       Unwrap(at_idx)),
                                 receipts |-> SubSeq(self.receipts, Unwrap(at_idx) + 1,
                                                     Len(self.receipts)),
                                 first_block |-> at ] ]

\* split_at taking one revert layer too few from the higher half
split_at_takes_one_less(self, at) ==
    IF at = self.first_block
    THEN [panic |-> FALSE, lower |-> None, higher |-> self]
    ELSE IF at = 0
    THEN [panic |-> TRUE, lower |-> None, higher |-> self]
    ELSE LET lower_state == revert_to(self, at - 1).self
             at_idx == block_number_to_index(self, at)
         IN  IF at_idx = None
             THEN [panic |-> TRUE, lower |-> None, higher |-> self]
             ELSE [ panic  |-> FALSE,
                    lower  |-> Some(lower_state),
                    higher |-> [ bundle |-> BundleState_take_n_reverts(self.bundle,
                                                                       Unwrap(at_idx) - 1),
                                 receipts |-> SubSeq(self.receipts, Unwrap(at_idx) + 1,
                                                     Len(self.receipts)),
                                 first_block |-> at ] ]

\* split_at without the early return for at == first_block
split_at_no_early_return(self, at) ==
    IF at = 0
    THEN [panic |-> TRUE, lower |-> None, higher |-> self]
    ELSE LET lower_state == revert_to(self, at - 1).self
             at_idx == block_number_to_index(self, at)
         IN  IF at_idx = None
             THEN [panic |-> TRUE, lower |-> None, higher |-> self]
             ELSE [ panic  |-> FALSE,
                    lower  |-> Some(lower_state),
                    higher |-> [ bundle |-> BundleState_take_n_reverts(self.bundle,
                                                                       Unwrap(at_idx)),
                                 receipts |-> SubSeq(self.receipts, Unwrap(at_idx) + 1,
                                                     Len(self.receipts)),
                                 first_block |-> at ] ]

\* split_at accepting the block one past the last one: the whole bundle as the lower
\* half and an empty higher half
split_at_end_allowed(self, at) ==
    IF at = self.first_block
    THEN [panic |-> FALSE, lower |-> None, higher |-> self]
    ELSE IF at = 0
    THEN [panic |-> TRUE, lower |-> None, higher |-> self]
    ELSE LET lower_state == revert_to(self, at - 1).self
             at_idx == IF at = self.first_block + Len(self.receipts)
                       THEN Some(Len(self.receipts))
                       ELSE block_number_to_index(self, at)
         IN  IF at_idx = None
             THEN [panic |-> TRUE, lower |-> None, higher |-> self]
             ELSE [ panic  |-> FALSE,
                    lower  |-> Some(lower_state),
                    higher |-> [ bundle |-> BundleState_take_n_reverts(self.bundle,
                                                                       Unwrap(at_idx)),
                                 receipts |-> SubSeq(self.receipts, Unwrap(at_idx) + 1,
                                                     Len(self.receipts)),
                                 first_block |-> at ] ]

\* split_at falling back to index 0 when `at` is not in the range
split_at_index_clamped(self, at) ==
    IF at = self.first_block
    THEN [panic |-> FALSE, lower |-> None, higher |-> self]
    ELSE IF at = 0
    THEN [panic |-> TRUE, lower |-> None, higher |-> self]
    ELSE LET lower_state == revert_to(self, at - 1).self
             at_idx == IF block_number_to_index(self, at) = None THEN 0
                       ELSE Unwrap(block_number_to_index(self, at))
         IN  [ panic  |-> FALSE,
               lower  |-> Some(lower_state),
               higher |-> [ bundle |-> BundleState_take_n_reverts(self.bundle, at_idx),
                            receipts |-> SubSeq(self.receipts, at_idx + 1,
                                                Len(self.receipts)),
                            first_block |-> at ] ]

\* split_at returning (None, self) for a block that is not in the range
split_at_out_of_range_returns_self(self, at) ==
    IF at = self.first_block \/ block_number_to_index(self, at) = None
    THEN [panic |-> FALSE, lower |-> None, higher |-> self]
    ELSE LET lower_state == revert_to(self, at - 1).self
             at_idx == block_number_to_index(self, at)
         IN  [ panic  |-> FALSE,
               lower  |-> Some(lower_state),
               higher |-> [ bundle |-> BundleState_take_n_reverts(self.bundle,
                                                                  Unwrap(at_idx)),
                            receipts |-> SubSeq(self.receipts, Unwrap(at_idx) + 1,
                                                Len(self.receipts)),
                            first_block |-> at ] ]

\* split_at giving the higher half the entries of the lower half
split_at_higher_rolled_back(self, at) ==
    IF at = self.first_block
    THEN [panic |-> FALSE, lower |-> None, higher |-> self]
    ELSE IF at = 0
    THEN [panic |-> TRUE, lower |-> None, higher |-> self]
    ELSE LET lower_state == revert_to(self, at - 1).self
             at_idx == block_number_to_index(self, at)
         IN  IF at_idx = None
             THEN [panic |-> TRUE, lower |-> None, higher |-> self]
             ELSE [ panic  |-> FALSE,
                    lower  |-> Some(lower_state),
                    higher |-> [ bundle |-> [ state |-> lower_state.bundle.state,
                                              reverts |-> BundleState_take_n_reverts(
                                                  self.bundle, Unwrap(at_idx)).reverts ],
                                 receipts |-> SubSeq(self.receipts, Unwrap(at_idx) + 1,
                                                     Len(self.receipts)),
                                 first_block |-> at ] ]

\* BundleStateWithReceipts::split_at: whether the call panics and, if it does not,
\* the pair (lower, higher) it returns
split_at(self, at) ==
    IF at = self.first_block
    THEN [panic |-> FALSE, lower |-> None, higher |-> self]
    ELSE IF at = 0
    THEN \* at.checked_sub(1).unwrap()
         [panic |-> TRUE, lower |-> None, higher |-> self]
    ELSE LET lower_state == revert_to(self, at - 1).self
             at_idx == block_number_to_index(self, at)
         IN  IF at_idx = None
             THEN \* block_number_to_index(at).unwrap()
                  [panic |-> TRUE, lower |-> None, higher |-> self]
             ELSE [ panic  |-> FALSE,
                    lower  |-> Some(lower_state),
                    higher |-> [ bundle |-> BundleState_take_n_reverts(self.bundle,
                                                                       Unwrap(at_idx)),
                                 receipts |-> SubSeq(self.receipts, Unwrap(at_idx) + 1,
                                                     Len(self.receipts)),
                                 first_block |-> at ] ]

\* extend refusing an `other` that does not start where self ends
extend_only_contiguous(self, other) ==
    IF other.first_block # self.first_block + Len(self.receipts) THEN self
    ELSE [ self EXCEPT !.bundle = BundleState_extend(self.bundle, other.bundle),
                       !.receipts = self.receipts \o other.receipts ]

\* extend appending the layers and the receipts but keeping the entries of self
extend_keeps_entries(self, other) ==
    [ self EXCEPT !.bundle.reverts = BundleState_extend(self.bundle, other.bundle).reverts,
                  !.receipts = self.receipts \o other.receipts ]

\* BundleStateWithReceipts::extend
extend(self, other) ==
    [ self EXCEPT !.bundle = BundleState_extend(self.bundle, other.bundle),
                  !.receipts = self.receipts \o other.receipts ]

\* ------------------------------------------------------------------------
\* The database transaction: the tables write_to_db reads and writes
\* ------------------------------------------------------------------------

\* The order of the keys of the tables
AddressOrder == <<"a1">>

KeyOrder == <<"k1", "k2">>

\* par_sort_by_key on entries keyed by the members of S
Sorted(S, order) == SelectSeq(order, LAMBDA x : x \in S)

\* BundleAccount::is_info_changed
is_info_changed(acc) == acc.info # acc.original_info

\* BundleState::into_plain_state: the accounts and the storage to write, per address
BundleState_into_plain_state(b, is_value_known) ==
    LET written(a) ==
            { k \in DOMAIN b.state[a].storage :
                \/ ~is_value_known
                \/ /\ was_destroyed(b.state[a].status)
                   /\ b.state[a].storage[k].present_value # 0
                \/ /\ ~was_destroyed(b.state[a].status)
                   /\ is_changed(b.state[a].storage[k]) }
    IN  [ accounts |-> [a \in { x \in DOMAIN b.state :
                                  ~is_value_known \/ is_info_changed(b.state[x]) } |->
                           b.state[a].info],
          storage  |-> [a \in { x \in DOMAIN b.state :
                                  written(x) # {} \/ was_destroyed(b.state[x].status) } |->
                           [ wipe_storage |-> was_destroyed(b.state[a].status),
                             storage |-> [k \in written(a) |->
                                             b.state[a].storage[k].present_value] ]] ]

\* Reverts::into_plain_state_reverts: per block, the account reverts and the
\* storage reverts, per address
Reverts_into_plain_state_reverts(reverts) ==
    [ accounts |-> [i \in 1..Len(reverts) |->
                       [a \in { x \in DOMAIN reverts[i] :
                                  reverts[i][x].account[1] # "DoNothing" } |->
                           IF reverts[i][a].account[1] = "RevertTo"
                           THEN Some(reverts[i][a].account[2]) ELSE None]],
      storage  |-> [i \in 1..Len(reverts) |->
                       [a \in { x \in DOMAIN reverts[i] :
                                  \/ reverts[i][x].wipe_storage
                                  \/ DOMAIN reverts[i][x].storage # {} } |->
                           [ wiped |-> reverts[i][a].wipe_storage,
                             storage_revert |-> reverts[i][a].storage ]]] ]

\* BundleState::into_plain_state_and_reverts
BundleState_into_plain_state_and_reverts(b, is_value_known) ==
    [ plain_state |-> BundleState_into_plain_state(b, is_value_known),
      reverts     |-> Reverts_into_plain_state_reverts(b.reverts) ]

\* RevertToSlot::to_previous_value
to_previous_value(slot) == IF slot[1] = "Some" THEN slot[2] ELSE 0

\* StorageRevertsIter: the reverts of the bundle and the slots the database holds,
\* merged in key order; for a key both have, the value of the revert unless the
\* revert says Destroyed
StorageRevertsIter(reverts, wiped) ==
    LET keys == Sorted(DOMAIN reverts \cup DOMAIN wiped, KeyOrder)
    IN  [i \in 1..Len(keys) |->
            LET key == keys[i]
            IN  IF key \in DOMAIN reverts /\ key \in DOMAIN wiped
                THEN <<key, IF reverts[key][1] = "Some" THEN reverts[key][2]
                            ELSE wiped[key]>>
                ELSE IF key \in DOMAIN reverts
                THEN <<key, to_previous_value(reverts[key])>>
                ELSE <<key, wiped[key]>>]

\* StateReverts::write_to_db: the storage change-sets, then the account change-sets,
\* each block by block, by address and by key; the slots of a wiped account are read
\* from the plain storage of the database
StateReverts_write_to_db(tx, reverts, first_block) ==
    LET storage_changes(i) ==
            LET addresses == Sorted(DOMAIN reverts.storage[i], AddressOrder)
            IN  Flatten([j \in 1..Len(addresses) |->
                    LET address == addresses[j]
                        r == reverts.storage[i][address]
                        wiped_storage == IF r.wiped THEN tx.PlainStorageState[address]
                                         ELSE EmptyMap
                        entries == StorageRevertsIter(r.storage_revert, wiped_storage)
                    IN  [e \in 1..Len(entries) |->
                            [ block_number |-> first_block + (i - 1),
                              address |-> address,
                              key |-> entries[e][1],
                              value |-> entries[e][2] ]]])
        account_changes(i) ==
            LET addresses == Sorted(DOMAIN reverts.accounts[i], AddressOrder)
            IN  [j \in 1..Len(addresses) |->
                    [ block_number |-> first_block + (i - 1),
                      address |-> addresses[j],
                      info |-> OptionMap(reverts.accounts[i][addresses[j]], into_reth_acc) ]]
    IN  [ tx EXCEPT
            !.StorageChangeSet =
                @ \o Flatten([i \in 1..Len(reverts.storage) |-> storage_changes(i)]),
            !.AccountChangeSet =
                @ \o Flatten([i \in 1..Len(reverts.accounts) |-> account_changes(i)]) ]

\* StateChanges::write_to_db: the plain accounts are upserted or deleted, the plain
\* storage of a wiped address is deleted, and each written slot replaces the entry of
\* its key, a zero value leaving no entry
StateChanges_write_to_db(tx, plain_state) ==
    [ tx EXCEPT
        !.PlainAccountState =
            [a \in { x \in DOMAIN @ \cup DOMAIN plain_state.accounts :
                       IF x \in DOMAIN plain_state.accounts
                       THEN IsSome(plain_state.accounts[x]) ELSE TRUE } |->
                IF a \in DOMAIN plain_state.accounts
                THEN into_reth_acc(Unwrap(plain_state.accounts[a])) ELSE @[a]],
        !.PlainStorageState =
            [a \in DOMAIN @ |->
                IF a \notin DOMAIN plain_state.storage THEN @[a]
                ELSE LET change == plain_state.storage[a]
                         kept == IF change.wipe_storage THEN EmptyMap ELSE @[a]
                     IN  [k \in { x \in DOMAIN kept \cup DOMAIN change.storage :
                                    IF x \in DOMAIN change.storage
                                    THEN change.storage[x] # 0 ELSE TRUE } |->
                             IF k \in DOMAIN change.storage THEN change.storage[k]
                             ELSE kept[k]]] ]

\* The last key of the receipts table, -1 for an empty table
LastReceiptKey(table) == IF table = <<>> THEN -1 ELSE table[Len(table)][1]

\* The inner loop appending a kept receipt at first_tx_index plus the number of
\* kept receipts before it
RECURSIVE append_receipts_dense(_, _, _, _, _)
append_receipts_dense(table, first_tx_index, block_receipts, tx_idx, fails) ==
    LET key == first_tx_index + Len(FilterSome(SubSeq(block_receipts, 1, tx_idx)))
    IN  IF tx_idx >= Len(block_receipts) THEN [result |-> "ok", table |-> table]
        ELSE IF block_receipts[tx_idx + 1] = None
        THEN append_receipts_dense(table, first_tx_index, block_receipts, tx_idx + 1, fails)
        ELSE IF fails = "append" \/ key <= LastReceiptKey(table)
        THEN [result |-> "err", table |-> table]
        ELSE append_receipts_dense(Append(table, <<key, Unwrap(block_receipts[tx_idx + 1])>>),
                                   first_tx_index, block_receipts, tx_idx + 1, fails)

\* The inner loop appending whatever key it is given
RECURSIVE append_receipts_any_key(_, _, _, _, _)
append_receipts_any_key(table, first_tx_index, block_receipts, tx_idx, fails) ==
    IF tx_idx >= Len(block_receipts) THEN [result |-> "ok", table |-> table]
    ELSE IF block_receipts[tx_idx + 1] = None
    THEN append_receipts_any_key(table, first_tx_index, block_receipts, tx_idx + 1, fails)
    ELSE IF fails = "append"
    THEN [result |-> "err", table |-> table]
    ELSE append_receipts_any_key(Append(table, <<first_tx_index + tx_idx,
                                                 Unwrap(block_receipts[tx_idx + 1])>>),
                                 first_tx_index, block_receipts, tx_idx + 1, fails)

\* The inner loop of write_to_db over the receipts of one block, from slot tx_idx
\* on: a kept receipt is appended at first_tx_index + tx_idx; the cursor's append
\* fails on a key that is not greater than the last key of the table, and whenever
\* the storage fails at "append"
RECURSIVE append_receipts(_, _, _, _, _)
append_receipts(table, first_tx_index, block_receipts, tx_idx, fails) ==
    IF tx_idx >= Len(block_receipts) THEN [result |-> "ok", table |-> table]
    ELSE IF block_receipts[tx_idx + 1] = None
    THEN append_receipts(table, first_tx_index, block_receipts, tx_idx + 1, fails)
    ELSE IF fails = "append" \/ first_tx_index + tx_idx <= LastReceiptKey(table)
    THEN [result |-> "err", table |-> table]
    ELSE append_receipts(Append(table, <<first_tx_index + tx_idx,
                                         Unwrap(block_receipts[tx_idx + 1])>>),
                         first_tx_index, block_receipts, tx_idx + 1, fails)

\* The outer loop looking up the body indices only of a block with a kept receipt
RECURSIVE write_receipts_kept_only(_, _, _, _, _)
write_receipts_kept_only(tx, receipts_, first_block_, idx, fails) ==
    IF idx >= Len(receipts_) THEN [result |-> "ok", tx |-> tx]
    ELSE IF FilterSome(receipts_[idx + 1]) = <<>>
    THEN write_receipts_kept_only(tx, receipts_, first_block_, idx + 1, fails)
    ELSE LET block_number == first_block_ + idx
             sought == [tx EXCEPT !.seeks = @ \cup {block_number}]
         IN  IF fails = "seek" THEN [result |-> "err", tx |-> sought]
             ELSE IF block_number \notin DOMAIN tx.BlockBodyIndices
             THEN [result |-> "panic", tx |-> sought]
             ELSE LET r == append_receipts(tx.Receipts,
                                           tx.BlockBodyIndices[block_number].first_tx_num,
                                           receipts_[idx + 1], 0, fails)
                      appended == [sought EXCEPT !.Receipts = r.table]
                  IN  IF r.result # "ok" THEN [result |-> "err", tx |-> appended]
                      ELSE write_receipts_kept_only(appended, receipts_, first_block_,
                                                    idx + 1, fails)

\* The outer loop passing over a block whose body indices are missing
RECURSIVE write_receipts_skip_missing(_, _, _, _, _)
write_receipts_skip_missing(tx, receipts_, first_block_, idx, fails) ==
    IF idx >= Len(receipts_) THEN [result |-> "ok", tx |-> tx]
    ELSE IF receipts_[idx + 1] = <<>>
    THEN write_receipts_skip_missing(tx, receipts_, first_block_, idx + 1, fails)
    ELSE LET block_number == first_block_ + idx
             sought == [tx EXCEPT !.seeks = @ \cup {block_number}]
         IN  IF fails = "seek" THEN [result |-> "err", tx |-> sought]
             ELSE IF block_number \notin DOMAIN tx.BlockBodyIndices
             THEN write_receipts_skip_missing(sought, receipts_, first_block_, idx + 1,
                                              fails)
             ELSE LET r == append_receipts(tx.Receipts,
                                           tx.BlockBodyIndices[block_number].first_tx_num,
                                           receipts_[idx + 1], 0, fails)
                      appended == [sought EXCEPT !.Receipts = r.table]
                  IN  IF r.result # "ok" THEN [result |-> "err", tx |-> appended]
                      ELSE write_receipts_skip_missing(appended, receipts_, first_block_,
                                                       idx + 1, fails)

\* The outer loop of write_to_db over the blocks, from index idx on: the body
\* indices of a block whose receipts are not empty are looked up; the lookup returns
\* an error when the storage fails at "seek", and panics when there are no body
\* indices
RECURSIVE write_receipts(_, _, _, _, _)
write_receipts(tx, receipts_, first_block_, idx, fails) ==
    IF idx >= Len(receipts_) THEN [result |-> "ok", tx |-> tx]
    ELSE IF receipts_[idx + 1] = <<>>
    THEN write_receipts(tx, receipts_, first_block_, idx + 1, fails)
    ELSE LET block_number == first_block_ + idx
             sought == [tx EXCEPT !.seeks = @ \cup {block_number}]
         IN  IF fails = "seek" THEN [result |-> "err", tx |-> sought]
             ELSE IF block_number \notin DOMAIN tx.BlockBodyIndices
             THEN [result |-> "panic", tx |-> sought]
             ELSE LET r == append_receipts(tx.Receipts,
                                           tx.BlockBodyIndices[block_number].first_tx_num,
                                           receipts_[idx + 1], 0, fails)
                      appended == [sought EXCEPT !.Receipts = r.table]
                  IN  IF r.result # "ok" THEN [result |-> "err", tx |-> appended]
                      ELSE write_receipts(appended, receipts_, first_block_, idx + 1,
                                          fails)

\* write_to_db emitting the storage change-sets in the reverse order
write_to_db_changesets_reversed(self, tx, is_value_known, fails) ==
    LET split == BundleState_into_plain_state_and_reverts(self.bundle, is_value_known)
        inorder == StateReverts_write_to_db(tx, split.reverts, self.first_block)
        reverted == [inorder EXCEPT !.StorageChangeSet =
                        [i \in 1..Len(@) |-> @[Len(@) + 1 - i]]]
        written == write_receipts(reverted, self.receipts, self.first_block, 0, fails)
    IN  IF fails = "reverts" THEN [result |-> "err", tx |-> tx]
        ELSE IF fails = "receipts" THEN [result |-> "err", tx |-> reverted]
        ELSE IF written.result # "ok" THEN written
        ELSE IF fails = "plain_state" THEN [result |-> "err", tx |-> written.tx]
        ELSE [ result |-> "ok",
               tx |-> StateChanges_write_to_db(written.tx, split.plain_state) ]

\* write_to_db numbering the blocks of the change-sets from first_block + 1
write_to_db_changesets_one_late(self, tx, is_value_known, fails) ==
    LET split == BundleState_into_plain_state_and_reverts(self.bundle, is_value_known)
        reverted == StateReverts_write_to_db(tx, split.reverts, self.first_block + 1)
        written == write_receipts(reverted, self.receipts, self.first_block, 0, fails)
    IN  IF fails = "reverts" THEN [result |-> "err", tx |-> tx]
        ELSE IF fails = "receipts" THEN [result |-> "err", tx |-> reverted]
        ELSE IF written.result # "ok" THEN written
        ELSE IF fails = "plain_state" THEN [result |-> "err", tx |-> written.tx]
        ELSE [ result |-> "ok",
               tx |-> StateChanges_write_to_db(written.tx, split.plain_state) ]

\* write_to_db returning after the receipts, the plain state left as it was
write_to_db_plain_state_kept(self, tx, is_value_known, fails) ==
    LET split == BundleState_into_plain_state_and_reverts(self.bundle, is_value_known)
        reverted == StateReverts_write_to_db(tx, split.reverts, self.first_block)
        written == write_receipts(reverted, self.receipts, self.first_block, 0, fails)
    IN  IF fails = "reverts" THEN [result |-> "err", tx |-> tx]
        ELSE IF fails = "receipts" THEN [result |-> "err", tx |-> reverted]
        ELSE IF written.result # "ok" THEN written
        ELSE IF fails = "plain_state" THEN [result |-> "err", tx |-> written.tx]
        ELSE [result |-> "ok", tx |-> written.tx]

\* write_to_db leaving out the reverts of the last block
write_to_db_last_layer_dropped(self, tx, is_value_known, fails) ==
    LET split == BundleState_into_plain_state_and_reverts(self.bundle, is_value_known)
        n == Len(split.reverts.accounts)
        kept == [ accounts |-> SubSeq(split.reverts.accounts, 1, n - 1),
                  storage  |-> SubSeq(split.reverts.storage, 1, n - 1) ]
        reverted == StateReverts_write_to_db(tx, kept, self.first_block)
        written == write_receipts(reverted, self.receipts, self.first_block, 0, fails)
    IN  IF fails = "reverts" THEN [result |-> "err", tx |-> tx]
        ELSE IF fails = "receipts" THEN [result |-> "err", tx |-> reverted]
        ELSE IF written.result # "ok" THEN written
        ELSE IF fails = "plain_state" THEN [result |-> "err", tx |-> written.tx]
        ELSE [ result |-> "ok",
               tx |-> StateChanges_write_to_db(written.tx, split.plain_state) ]

\* write_to_db writing the plain state before the reverts
write_to_db_plain_state_first(self, tx, is_value_known, fails) ==
    LET split == BundleState_into_plain_state_and_reverts(self.bundle, is_value_known)
        changed == StateChanges_write_to_db(tx, split.plain_state)
        reverted == StateReverts_write_to_db(changed, split.reverts, self.first_block)
        written == write_receipts(reverted, self.receipts, self.first_block, 0, fails)
    IN  IF fails = "plain_state" THEN [result |-> "err", tx |-> tx]
        ELSE IF fails = "reverts" THEN [result |-> "err", tx |-> changed]
        ELSE IF fails = "receipts" THEN [result |-> "err", tx |-> reverted]
        ELSE written

\* write_to_db numbering the blocks of the change-sets from zero
write_to_db_changesets_from_zero(self, tx, is_value_known, fails) ==
    LET split == BundleState_into_plain_state_and_reverts(self.bundle, is_value_known)
        reverted == StateReverts_write_to_db(tx, split.reverts, 0)
        written == write_receipts(reverted, self.receipts, self.first_block, 0, fails)
    IN  IF fails = "reverts" THEN [result |-> "err", tx |-> tx]
        ELSE IF fails = "receipts" THEN [result |-> "err", tx |-> reverted]
        ELSE IF written.result # "ok" THEN written
        ELSE IF fails = "plain_state" THEN [result |-> "err", tx |-> written.tx]
        ELSE [ result |-> "ok",
               tx |-> StateChanges_write_to_db(written.tx, split.plain_state) ]

\* write_to_db going on to the plain state after an error of the receipts or of the
\* plain state
write_to_db_error_dropped(self, tx, is_value_known, fails) ==
    LET split == BundleState_into_plain_state_and_reverts(self.bundle, is_value_known)
        reverted == StateReverts_write_to_db(tx, split.reverts, self.first_block)
        written == write_receipts(reverted, self.receipts, self.first_block, 0, fails)
    IN  IF fails = "reverts" THEN [result |-> "err", tx |-> tx]
        ELSE IF fails = "receipts" THEN [result |-> "err", tx |-> reverted]
        ELSE IF written.result = "panic" THEN written
        ELSE [ result |-> "ok",
               tx |-> StateChanges_write_to_db(written.tx, split.plain_state) ]

\* BundleStateWithReceipts::write_to_db on the transaction tx; `fails` names the step
\* at which the storage returns an error, if it does: the result and the tables
\* afterwards
write_to_db(self, tx, is_value_known, fails) ==
    LET split == BundleState_into_plain_state_and_reverts(self.bundle, is_value_known)
        reverted == StateReverts_write_to_db(tx, split.reverts, self.first_block)
        written == write_receipts(reverted, self.receipts, self.first_block, 0, fails)
    IN  IF fails = "reverts" THEN [result |-> "err", tx |-> tx]
        ELSE IF fails = "receipts" THEN [result |-> "err", tx |-> reverted]
        ELSE IF written.result # "ok" THEN written
        ELSE IF fails = "plain_state" THEN [result |-> "err", tx |-> written.tx]
        ELSE [ result |-> "ok",
               tx |-> StateChanges_write_to_db(written.tx, split.plain_state) ]

\* ------------------------------------------------------------------------
\* Inputs
\* ------------------------------------------------------------------------

Account1 == [nonce |-> 1, balance |-> 10, bytecode_hash |-> None]

Account2 == [nonce |-> 2, balance |-> 20, bytecode_hash |-> Some("h1")]

\* BundleStateInit values: address -> (original, present, storage key -> (original,
\* present))
StateInits ==
    { [a \in {"a1"} |-> <<None, Some(Account1), [k \in {"k1"} |-> <<0, 1>>]>>],
      [a \in {"a1"} |-> <<Some(Account1), Some(Account2), [k \in {"k1"} |-> <<1, 2>>]>>] }

\* The reverts of one block in a RevertsInit: address -> (Option<Option<Account>>,
\* Vec<StorageEntry>)
LayerInits ==
    { [a \in {"a1"} |-> <<Some(None), << <<"k1", 0>> >> >>],
      [a \in {"a1"} |-> <<Some(Some(Account1)), << <<"k1", 1>>, <<"k2", 0>> >> >>] }

\* RevertsInit values: a map from at most MaxBlocks block numbers, gaps allowed
RevertInits ==
    UNION { [S -> LayerInits] :
              S \in {T \in SUBSET (0..MaxBlocks) : Cardinality(T) <= MaxBlocks} }

\* Receipts values of at most MaxBlocks blocks
ReceiptsInits == UNION { [1..n -> ReceiptBlocks] : n \in 0..MaxBlocks }

\* Block numbers the operations are called with on the value `self`: block 0, and
\* every block from the one before first_block to the second one after the last
BlockNumbers(self) ==
    {0} \cup { n \in (self.first_block - 1)..(self.first_block + Len(self.receipts) + 1) :
                 n >= 0 }

\* The bundles extend is given
Others ==
    { new_init([a \in {"a1"} |-> <<Some(Account1), Some(Account2), [k \in {"k2"} |-> <<0, 2>>]>>],
               [n \in {5} |-> [a \in {"a1"} |-> <<Some(Some(Account1)), << <<"k2", 0>> >> >>]],
               <<5>>, << <<Some(Receipt2)>> >>, 0),
      new(BundleState_default, << <<Some(Receipt1)>> >>, 1) }

\* The accounts and slots of a database: per address, the account if there is one
\* and the value of every slot, zero for a slot the database has no entry of
ZeroStorage == [k \in StorageKeys |-> 0]

\* The databases: the address does not exist, or it exists with both slots set
Databases ==
    { [a \in Addresses |-> [info |-> None, storage |-> ZeroStorage]],
      [a \in Addresses |-> [info |-> Some(into_revm_acc(Account1)),
                            storage |-> [k \in StorageKeys |-> IF k = "k1" THEN 1 ELSE 2]]] }

\* The highest block number the body indices are given for
MaxBlockNumber == MaxFirstBlock + MaxBlocks + MaxExecBlocks + MaxOps

\* Body indices of every block, two transactions in each
AllBodies == [b \in 0..MaxBlockNumber |-> [first_tx_num |-> 2 * b, tx_count |-> 2]]

\* The same without the body indices of the block after MaxFirstBlock
MissingBodies == [b \in (0..MaxBlockNumber) \ {MaxFirstBlock + 1} |-> AllBodies[b]]

\* Body indices of every block, one transaction in each
NarrowBodies == [b \in 0..MaxBlockNumber |-> [first_tx_num |-> b, tx_count |-> 1]]

\* The tables of a transaction on the database db with the body indices bodies: no
\* change-set and no receipt of the blocks to write is in them
Transaction(db, bodies) ==
    [ PlainAccountState |-> [a \in { x \in Addresses : IsSome(db[x].info) } |->
                                into_reth_acc(Unwrap(db[a].info))],
      PlainStorageState |-> [a \in Addresses |->
                                [k \in { x \in StorageKeys : db[a].storage[x] # 0 } |->
                                    db[a].storage[k]]],
      AccountChangeSet  |-> <<>>,
      StorageChangeSet  |-> <<>>,
      Receipts          |-> <<>>,
      BlockBodyIndices  |-> bodies,
      seeks             |-> {} ]

\* What write_to_db is called with on one of the databases dbs: the transaction,
\* is_value_known (TRUE for OriginalValuesKnown::Yes), and the step at which the
\* storage fails
WriteEnvs(dbs) ==
    { [tx |-> Transaction(db, AllBodies), is_value_known |-> k, fails |-> "none"] :
        db \in dbs, k \in BOOLEAN }
    \cup { [tx |-> Transaction(db, AllBodies), is_value_known |-> TRUE, fails |-> f] :
             db \in dbs, f \in {"reverts", "receipts", "plain_state"} }
    \cup { [tx |-> Transaction(db, b), is_value_known |-> TRUE, fails |-> "none"] :
             db \in dbs, b \in {MissingBodies, NarrowBodies} }

\* A block's receipt slots as write_to_db is given them: also a block of no
\* transaction, and a block whose only receipt is pruned
WrittenReceiptBlocks == ReceiptBlocks \cup { <<>>, <<None>> }

WrittenReceiptsInits == UNION { [1..n -> WrittenReceiptBlocks] : n \in 0..MaxBlocks }

\* The body indices of every block but one
BodiesWithout(block_number) ==
    [b \in (0..MaxBlockNumber) \ {block_number} |-> AllBodies[b]]

\* What write_to_db is called with when the receipts are what varies: the storage
\* fails at one of the five steps or not at all, the body indices of one block are
\* missing, or the blocks hold one transaction each
ReceiptEnvs ==
    { [tx |-> Transaction(db, AllBodies), is_value_known |-> k, fails |-> "none"] :
        db \in Databases, k \in BOOLEAN }
    \cup { [tx |-> Transaction(db, AllBodies), is_value_known |-> TRUE, fails |-> f] :
             db \in Databases,
             f \in {"reverts", "receipts", "seek", "append", "plain_state"} }
    \cup { [tx |-> Transaction(db, BodiesWithout(b)), is_value_known |-> TRUE,
            fails |-> "none"] :
             db \in Databases, b \in 0..(MaxFirstBlock + 1) }
    \cup { [tx |-> Transaction(db, NarrowBodies), is_value_known |-> TRUE,
            fails |-> "none"] : db \in Databases }

\* The addresses of the bundles that are read and hashed
ProjectedAddresses == {"a1", "a2"}

\* Entries of a bundle as the executed blocks leave them: an account created with two
\* slots; an account changed, one slot zeroed and one written; an account destroyed;
\* an account destroyed and created again, with a slot written and a slot zeroed, or
\* with one slot written; an account destroyed twice; and an account given to
\* new_init, whose other slots are not known
BundleAccountInits ==
    LET info1 == into_revm_acc(Account1)
        info2 == into_revm_acc(Account2)
    IN  { BundleAccount(None, Some(info1),
                        [k \in {"k1", "k2"} |->
                            IF k = "k1" THEN StorageSlot(0, 1) ELSE StorageSlot(0, 3)],
                        "InMemoryChange"),
          BundleAccount(Some(info1), Some(info2),
                        [k \in {"k1", "k2"} |->
                            IF k = "k1" THEN StorageSlot(1, 0) ELSE StorageSlot(2, 3)],
                        "Changed"),
          BundleAccount(Some(info1), None, EmptyMap, "Destroyed"),
          BundleAccount(Some(info1), Some(info1),
                        [k \in {"k1", "k2"} |->
                            IF k = "k1" THEN StorageSlot(0, 1) ELSE StorageSlot(0, 0)],
                        "DestroyedChanged"),
          BundleAccount(Some(info1), Some(info1), [k \in {"k2"} |-> StorageSlot(0, 3)],
                        "DestroyedChanged"),
          BundleAccount(Some(info1), None, EmptyMap, "DestroyedAgain"),
          BundleAccount(None, Some(info1), [k \in {"k1"} |-> StorageSlot(0, 1)],
                        "Changed") }

\* The bundles that are read and hashed: any of the addresses with any of the entries
BundleInits ==
    UNION { [S -> BundleAccountInits] : S \in SUBSET ProjectedAddresses }

\* The orders a HashMap with the keys S may be iterated in
IterationOrders(S) ==
    { order \in [1..Cardinality(S) -> S] :
        \A i, j \in 1..Cardinality(S) : order[i] = order[j] => i = j }

\* The hashed tables of a transaction on the accounts and slots world, and the trie
\* stored for them: the account under the hash of its address, each non-zero slot
\* under the hash of its key
HashedTransaction(world) ==
    LET existing == { a \in DOMAIN world : IsSome(world[a].info) }
        slots(a) == { k \in StorageKeys : world[a].storage[k] # 0 }
        address_of(h) == CHOOSE a \in existing : keccak256(a) = h
        key_of(h) == CHOOSE k \in StorageKeys : keccak256(k) = h
        hashed_storage_of(a) ==
            [hk \in { keccak256(k) : k \in slots(a) } |-> world[a].storage[key_of(hk)]]
        hashed == { keccak256(a) : a \in existing }
    IN  [ HashedAccount |->
              [h \in hashed |-> into_reth_acc(Unwrap(world[address_of(h)].info))],
          HashedStorage |-> [h \in hashed |-> hashed_storage_of(address_of(h))],
          AccountsTrie  |->
              [h \in hashed |->
                  <<h, into_reth_acc(Unwrap(world[address_of(h)].info)),
                    storage_root(hashed_storage_of(address_of(h)))>>],
          StoragesTrie  |-> [h \in hashed |-> hashed_storage_of(address_of(h))] ]

\* proofs::state_root: the root computed from scratch over accounts with their slots
state_root(world) ==
    LET trie == HashedTransaction(world).AccountsTrie
    IN  { trie[h] : h \in DOMAIN trie }

\* A block's receipt slots as the read accessors find them: also a block of no
\* transaction, a block whose only receipt is pruned, and a block of two kept
\* receipts around a pruned one
QueriedReceiptBlocks ==
    WrittenReceiptBlocks \cup { <<Some(Receipt2), None, Some(Receipt1)>> }

QueriedReceiptsInits == UNION { [1..n -> QueriedReceiptBlocks] : n \in 0..MaxBlocks }

\* ------------------------------------------------------------------------
\* State
\* ------------------------------------------------------------------------

VARIABLES
    bundle,       \* self.bundle
    receipts,     \* self.receipts
    first_block,  \* self.first_block
    ret,          \* the last operation: its name, argument, result and returned value
    pre,          \* the value of self when the last operation was called
    prev,         \* Some(b) when the operation before the last was a revert_to(b)
                  \* that returned true, else None
    ops,          \* the number of operations called since the construction
    exec,         \* the execution that produced the bundle: the database it ran on,
                  \* the accounts after the last commit, the status of each cached
                  \* account, the transitions of the block being executed, the
                  \* accounts and the bundle as they were at the end of each block,
                  \* and the commits of each block
    tx            \* the tables of the database transaction as write_to_db left
                  \* them; None as long as write_to_db was not called

vars == <<bundle, receipts, first_block, ret, pre, prev, ops, exec, tx>>

Self == [bundle |-> bundle, receipts |-> receipts, first_block |-> first_block]

SetSelf(s) ==
    /\ bundle' = s.bundle
    /\ receipts' = s.receipts
    /\ first_block' = s.first_block

Returned(op, arg, result, value) ==
    [op |-> op, arg |-> arg, result |-> result, value |-> value]

\* What the last operation leaves for the next one to look back at
Prev == IF ret.op = "revert_to" /\ ret.result = "true" THEN Some(ret.arg) ELSE None

\* A call on a value that write_to_db was called on is possible
CanCall_after_write == ret.result # "panic" /\ ops < MaxOps /\ exec.phase # "executing"

\* A call is possible: no panic has unwound the caller (the value was moved into the
\* panicking call and is gone), and write_to_db, which takes self by value, was not
\* called on the value
CanCall ==
    /\ ret.result # "panic"
    /\ ret.op # "write_to_db"
    /\ ops < MaxOps
    /\ exec.phase # "executing"

Called ==
    /\ pre' = Self
    /\ prev' = Prev
    /\ ops' = ops + 1
    /\ UNCHANGED <<exec, tx>>

\* The value of exec for a bundle that no execution produced
NoExecution ==
    [ phase |-> "constructed", db |-> EmptyMap, world |-> EmptyMap, cache |-> EmptyMap,
      transitions |-> EmptyMap, history |-> <<>>, snapshots |-> <<>>, commits |-> 0,
      log |-> <<>>, predestroy |-> <<>> ]

\* ------------------------------------------------------------------------
\* Operations
\* ------------------------------------------------------------------------

Init ==
    \E state_init \in StateInits, revert_init \in RevertInits,
       receipts_ \in ReceiptsInits, first_block_ \in 0..MaxFirstBlock :
        LET s == new_init(state_init, revert_init, SortedKeys(DOMAIN revert_init),
                          receipts_, first_block_)
        IN  /\ bundle = s.bundle
            /\ receipts = s.receipts
            /\ first_block = s.first_block
            /\ ret = Returned("new_init", first_block_, "ok", None)
            /\ pre = s
            /\ prev = None
            /\ ops = 0
            /\ exec = NoExecution
            /\ tx = None

SetFirstBlock(first_block_) ==
    /\ CanCall
    /\ SetSelf(set_first_block(Self, first_block_))
    /\ ret' = Returned("set_first_block", first_block_, "ok", None)
    /\ Called

RevertTo(block_number) ==
    /\ CanCall
    /\ LET r == revert_to(Self, block_number)
       IN  /\ SetSelf(r.self)
           /\ ret' = Returned("revert_to", block_number,
                              IF r.result THEN "true" ELSE "false", None)
    /\ Called

\* split_at consumes self and returns (lower, higher): the model goes on with the
\* higher half as self and keeps the lower half as the returned value
SplitAt(at) ==
    /\ CanCall
    /\ LET r == split_at(Self, at)
       IN  IF r.panic
           THEN /\ ret' = Returned("split_at", at, "panic", None)
                /\ UNCHANGED <<bundle, receipts, first_block>>
           ELSE /\ SetSelf(r.higher)
                /\ ret' = Returned("split_at", at, "ok", r.lower)
    /\ Called

Extend(other) ==
    /\ CanCall
    /\ SetSelf(extend(Self, other))
    /\ ret' = Returned("extend", other, "ok", None)
    /\ Called

\* The round trip: the lower half that the split_at just called returned is extended
\* by the higher half; `pre` stays the value that was split
ExtendLower ==
    /\ CanCall
    /\ ret.op = "split_at"
    /\ ret.result = "ok"
    /\ IsSome(ret.value)
    /\ SetSelf(extend(Unwrap(ret.value), Self))
    /\ ret' = Returned("split_at_extend", ret.arg, "ok", None)
    /\ prev' = None
    /\ ops' = ops + 1
    /\ UNCHANGED <<pre, exec, tx>>

\* The read accessors keyed by block number, called together on one block number
Query(block_number) ==
    /\ CanCall
    /\ ret' = Returned("query", block_number, "ok",
                       [ index    |-> block_number_to_index(Self, block_number),
                         logs     |-> logs(Self, block_number),
                         bloom    |-> block_logs_bloom(Self, block_number),
                         root     |-> receipts_root_slow(Self, block_number),
                         by_block |-> receipts_by_block(Self, block_number) ])
    /\ UNCHANGED <<bundle, receipts, first_block>>
    /\ Called

\* write_to_db takes self by value: the tables are written, and the value is gone
WriteToDb(env) ==
    /\ CanCall
    /\ LET r == write_to_db(Self, env.tx, env.is_value_known, env.fails)
       IN  /\ tx' = r.tx
           /\ ret' = Returned("write_to_db", env, r.result, None)
    /\ UNCHANGED <<bundle, receipts, first_block, exec>>
    /\ pre' = Self
    /\ prev' = Prev
    /\ ops' = ops + 1

Next ==
    \/ \E first_block_ \in 0..MaxFirstBlock : SetFirstBlock(first_block_)
    \/ \E block_number \in BlockNumbers(Self) : RevertTo(block_number)
    \/ \E at \in BlockNumbers(Self) : SplitAt(at)
    \/ \E other \in Others : Extend(other)
    \/ ExtendLower
    \/ \E block_number \in BlockNumbers(Self) : Query(block_number)
    \/ \E env \in WriteEnvs(Databases) : WriteToDb(env)

Spec == Init /\ [][Next]_vars

\* A bundle is constructed and written: the receipts are any blocks write_to_db may
\* be given
InitWrite ==
    \E state_init \in StateInits, revert_init \in RevertInits,
       receipts_ \in WrittenReceiptsInits, first_block_ \in 0..MaxFirstBlock :
        LET s == new_init(state_init, revert_init, SortedKeys(DOMAIN revert_init),
                          receipts_, first_block_)
        IN  /\ bundle = s.bundle
            /\ receipts = s.receipts
            /\ first_block = s.first_block
            /\ ret = Returned("new_init", first_block_, "ok", None)
            /\ pre = s
            /\ prev = None
            /\ ops = 0
            /\ exec = NoExecution
            /\ tx = None

NextWrite == \E env \in ReceiptEnvs : WriteToDb(env)

SpecWrite == InitWrite /\ [][NextWrite]_vars

\* A block's receipt slots as the loop over the receipts meets them: also a block
\* whose last slot is pruned
AppendedReceiptBlocks == WrittenReceiptBlocks \cup { <<Some(Receipt1), None>> }

AppendedReceiptsInits == UNION { [1..n -> AppendedReceiptBlocks] : n \in 0..MaxBlocks }

\* Body indices of every block, two transactions in each, a block starting one
\* transaction after the block before it
OverlappingBodies == [b \in 0..MaxBlockNumber |-> [first_tx_num |-> b, tx_count |-> 2]]

\* What write_to_db is called with when the keys of the receipts are what varies: the
\* storage does not fail, and the body indices are there
AppendEnvs ==
    { [tx |-> Transaction(db, bodies), is_value_known |-> TRUE, fails |-> "none"] :
        db \in Databases, bodies \in {AllBodies, NarrowBodies, OverlappingBodies} }

InitAppend ==
    \E state_init \in StateInits, revert_init \in RevertInits,
       receipts_ \in AppendedReceiptsInits, first_block_ \in 0..MaxFirstBlock :
        LET s == new_init(state_init, revert_init, SortedKeys(DOMAIN revert_init),
                          receipts_, first_block_)
        IN  /\ bundle = s.bundle
            /\ receipts = s.receipts
            /\ first_block = s.first_block
            /\ ret = Returned("new_init", first_block_, "ok", None)
            /\ pre = s
            /\ prev = None
            /\ ops = 0
            /\ exec = NoExecution
            /\ tx = None

NextAppend == \E env \in AppendEnvs : WriteToDb(env)

SpecAppend == InitAppend /\ [][NextAppend]_vars

\* A bundle is read by address and by slot, and hashed; nothing changes it
InitRead ==
    \E state \in BundleInits :
        LET s == new([state |-> state, reverts |-> <<>>], <<>>, 0)
        IN  /\ bundle = s.bundle
            /\ receipts = s.receipts
            /\ first_block = s.first_block
            /\ ret = Returned("new", 0, "ok", None)
            /\ pre = s
            /\ prev = None
            /\ ops = 0
            /\ exec = NoExecution
            /\ tx = None

AccountOf(address) ==
    /\ CanCall
    /\ ret' = Returned("account", address, "ok", account(Self, address))
    /\ UNCHANGED <<bundle, receipts, first_block>>
    /\ Called

StorageOf(address, storage_key) ==
    /\ CanCall
    /\ ret' = Returned("storage", <<address, storage_key>>, "ok",
                       storage(Self, address, storage_key))
    /\ UNCHANGED <<bundle, receipts, first_block>>
    /\ Called

\* hash_state_slow with the entries of the bundle and the slots of an account
\* iterated in some order
HashStateSlow(addresses, keys) ==
    /\ CanCall
    /\ ret' = Returned("hash_state_slow", <<addresses, keys>>, "ok",
                       hash_state_slow(Self, addresses, keys))
    /\ UNCHANGED <<bundle, receipts, first_block>>
    /\ Called

NextRead ==
    \/ \E address \in ProjectedAddresses : AccountOf(address)
    \/ \E address \in ProjectedAddresses, storage_key \in StorageKeys :
           StorageOf(address, storage_key)
    \/ \E addresses \in IterationOrders(DOMAIN bundle.state),
          keys \in IterationOrders(StorageKeys) :
           HashStateSlow(addresses, keys)

SpecRead == InitRead /\ [][NextRead]_vars

\* A bundle is constructed and its blocks are read; nothing changes it
InitQuery ==
    \E state_init \in StateInits, revert_init \in RevertInits,
       receipts_ \in QueriedReceiptsInits, first_block_ \in 0..MaxFirstBlock :
        LET s == new_init(state_init, revert_init, SortedKeys(DOMAIN revert_init),
                          receipts_, first_block_)
        IN  /\ bundle = s.bundle
            /\ receipts = s.receipts
            /\ first_block = s.first_block
            /\ ret = Returned("new_init", first_block_, "ok", None)
            /\ pre = s
            /\ prev = None
            /\ ops = 0
            /\ exec = NoExecution
            /\ tx = None

NextQuery == \E block_number \in BlockNumbers(Self) : Query(block_number)

SpecQuery == InitQuery /\ [][NextQuery]_vars

\* A bundle is constructed from a revert_init whose entries the HashMap yields in any
\* order, and written; exec keeps the arguments of new_init
InitOrder ==
    \E state_init \in StateInits, revert_init \in RevertInits,
       receipts_ \in ReceiptsInits, first_block_ \in 0..MaxFirstBlock :
        \E iteration \in IterationOrders(DOMAIN revert_init) :
            LET s == new_init(state_init, revert_init, iteration, receipts_, first_block_)
            IN  /\ bundle = s.bundle
                /\ receipts = s.receipts
                /\ first_block = s.first_block
                /\ ret = Returned("new_init", first_block_, "ok", None)
                /\ pre = s
                /\ prev = None
                /\ ops = 0
                /\ exec = [revert_init |-> revert_init, iteration |-> iteration]
                              @@ NoExecution
                /\ tx = None

NextOrder == \E env \in WriteEnvs(Databases) : WriteToDb(env)

SpecOrder == InitOrder /\ [][NextOrder]_vars

\* ------------------------------------------------------------------------
\* A bundle aggregated block by block: the executor commits the state changes of
\* each transaction to revm's State, merges the transitions of a block into the
\* bundle at the end of the block, and the bundle is then handed to
\* BundleStateWithReceipts::new
\* ------------------------------------------------------------------------

AccountInfos == {into_revm_acc(Account1), into_revm_acc(Account2)}

\* The slots a created account comes with
CreatedStorages ==
    { EmptyMap, [k \in {"k1"} |-> StorageSlot(0, 1)], [k \in {"k2"} |-> StorageSlot(0, 3)] }

\* The values a transaction writes to a slot
WrittenValues == {0, 3}

\* TransitionState::add_transitions for one account
add_transition(transitions, address, transition) ==
    IF transition = None THEN transitions
    ELSE IF address \in DOMAIN transitions
    THEN [transitions EXCEPT ![address] = TransitionAccount_update(@, Unwrap(transition))]
    ELSE MapInsert(transitions, address, Unwrap(transition))

ExecInit ==
    \E db \in Databases :
        /\ bundle = BundleState_default
        /\ receipts = <<>>
        /\ first_block = MaxFirstBlock
        /\ ret = Returned("execute", MaxFirstBlock, "ok", None)
        /\ pre = Self
        /\ prev = None
        /\ ops = 0
        /\ exec = [ phase |-> "executing", db |-> db, world |-> db,
                    \* State::load_cache_account
                    cache |-> [a \in Addresses |-> IF IsSome(db[a].info) THEN "Loaded"
                                                   ELSE "LoadedNotExisting"],
                    transitions |-> EmptyMap, history |-> <<>>, snapshots |-> <<>>,
                    commits |-> 0, log |-> << <<>> >>, predestroy |-> <<EmptyMap>> ]
        /\ tx = None

CanCommit ==
    /\ exec.phase = "executing"
    /\ ret.result # "panic"
    /\ exec.commits < MaxCommits
    /\ Len(receipts) < MaxExecBlocks

\* The commit is applied to the cache and to the transitions of the block, and is
\* logged as the last commit of the block being executed: its kind, its address and
\* the slots it gave a new value; the account as it was before the first selfdestruct
\* of the block is kept
Committed(address, r, world_account, kind) ==
    /\ exec' = [exec EXCEPT !.cache[address] = r.status,
                            !.transitions = add_transition(@, address, r.transition),
                            !.world[address] = world_account,
                            !.commits = @ + 1,
                            !.log[Len(exec.log)] =
                                Append(@, [ kind |-> kind, address |-> address,
                                            slots |-> { k \in StorageKeys :
                                                          world_account.storage[k] #
                                                              exec.world[address].storage[k] } ]),
                            !.predestroy[Len(exec.predestroy)] =
                                IF /\ kind = "selfdestructed"
                                   /\ address \notin DOMAIN @
                                   /\ exec.world[address].info # None
                                THEN MapInsert(@, address, exec.world[address])
                                ELSE @]
    /\ UNCHANGED <<bundle, receipts, first_block, ret, pre, prev, ops, tx>>

\* State::commit of a transaction that created the account
CommitCreated(address, info, new_storage) ==
    /\ CanCommit
    /\ exec.world[address].info = None
    /\ Committed(address,
                 CacheAccount_newly_created(exec.cache[address], exec.world[address].info,
                                            info, new_storage),
                 [info |-> Some(info),
                  storage |-> [k \in StorageKeys |->
                                  IF k \in DOMAIN new_storage THEN new_storage[k].present_value
                                  ELSE 0]],
                 "created")

\* State::commit of a transaction that touched the existing account: its info is
\* set, and the one slot it loaded is written
CommitChanged(address, info, key, value) ==
    /\ CanCommit
    /\ exec.world[address].info # None
    /\ Committed(address,
                 CacheAccount_change(exec.cache[address], exec.world[address].info, info,
                                     [k \in {key} |->
                                         StorageSlot(exec.world[address].storage[k], value)]),
                 [info |-> Some(info),
                  storage |-> [exec.world[address].storage EXCEPT ![key] = value]],
                 "changed")

\* State::commit of a transaction in which the account selfdestructed
CommitSelfdestructed(address) ==
    /\ CanCommit
    /\ Committed(address,
                 CacheAccount_selfdestruct(exec.cache[address], exec.world[address].info),
                 [info |-> None, storage |-> ZeroStorage],
                 "selfdestructed")

\* The receipts of the executed block: one receipt in odd blocks, a pruned and a
\* kept receipt in even blocks
BlockReceipts(block_number) ==
    IF block_number % 2 = 1 THEN <<Some(Receipt1)>> ELSE <<None, Some(Receipt2)>>

\* The end of a block: State::merge_transitions(BundleRetention::Reverts), and the
\* receipts of the block are pushed
MergeTransitions ==
    /\ exec.phase = "executing"
    /\ ret.result # "panic"
    /\ Len(receipts) < MaxExecBlocks
    /\ LET r == BundleState_apply_transitions_and_create_reverts(bundle, exec.transitions)
           b == [state |-> r.state, reverts |-> r.reverts]
       IN  IF r.unreachable
           THEN /\ ret' = Returned("execute", first_block, "panic", None)
                /\ UNCHANGED <<bundle, receipts, exec>>
           ELSE /\ bundle' = b
                /\ receipts' = Append(receipts, BlockReceipts(first_block + Len(receipts)))
                /\ exec' = [exec EXCEPT !.transitions = EmptyMap,
                                        !.history = Append(@, exec.world),
                                        !.snapshots = Append(@, b),
                                        !.log = Append(@, <<>>),
                                        !.predestroy = Append(@, EmptyMap)]
                /\ UNCHANGED ret
    /\ UNCHANGED <<first_block, pre, prev, ops, tx>>

\* The executed blocks are handed over: BundleStateWithReceipts::new(bundle,
\* receipts, first_block)
New ==
    /\ exec.phase = "executing"
    /\ ret.result # "panic"
    /\ exec.transitions = EmptyMap
    /\ Len(receipts) > 0
    /\ SetSelf(new(bundle, receipts, first_block))
    /\ ret' = Returned("new", first_block, "ok", None)
    /\ pre' = new(bundle, receipts, first_block)
    /\ exec' = [exec EXCEPT !.phase = "taken"]
    /\ UNCHANGED <<prev, ops, tx>>

NextAgg ==
    \/ \E address \in Addresses, info \in AccountInfos, new_storage \in CreatedStorages :
           CommitCreated(address, info, new_storage)
    \/ \E address \in Addresses, info \in AccountInfos, key \in StorageKeys,
          value \in WrittenValues :
           CommitChanged(address, info, key, value)
    \/ \E address \in Addresses : CommitSelfdestructed(address)
    \/ MergeTransitions
    \/ New
    \/ \E block_number \in BlockNumbers(Self) : RevertTo(block_number)

SpecAgg == ExecInit /\ [][NextAgg]_vars

\* The executed blocks are handed over and written to the database they ran on
NextDb ==
    \/ \E address \in Addresses, info \in AccountInfos, new_storage \in CreatedStorages :
           CommitCreated(address, info, new_storage)
    \/ \E address \in Addresses, info \in AccountInfos, key \in StorageKeys,
          value \in WrittenValues :
           CommitChanged(address, info, key, value)
    \/ \E address \in Addresses : CommitSelfdestructed(address)
    \/ MergeTransitions
    \/ New
    \/ \E env \in WriteEnvs({exec.db}) : WriteToDb(env)

SpecDb == ExecInit /\ [][NextDb]_vars

\* The executed blocks are handed over and split
NextSplit ==
    \/ \E address \in Addresses, info \in AccountInfos, new_storage \in CreatedStorages :
           CommitCreated(address, info, new_storage)
    \/ \E address \in Addresses, info \in AccountInfos, key \in StorageKeys,
          value \in WrittenValues :
           CommitChanged(address, info, key, value)
    \/ \E address \in Addresses : CommitSelfdestructed(address)
    \/ MergeTransitions
    \/ New
    \/ \E at \in BlockNumbers(Self) : SplitAt(at)

SpecSplit == ExecInit /\ [][NextSplit]_vars

\* The root of the state after the executed blocks is asked for, on the database the
\* blocks ran on
StateRootSlow(addresses, keys) ==
    /\ CanCall
    /\ exec.phase = "taken"
    /\ ret' = Returned("state_root_slow", exec.db, "ok",
                       state_root_slow(Self, HashedTransaction(exec.db), addresses, keys))
    /\ UNCHANGED <<bundle, receipts, first_block>>
    /\ Called

StateRootSlowWithUpdates(addresses, keys) ==
    /\ CanCall
    /\ exec.phase = "taken"
    /\ ret' = Returned("state_root_slow_with_updates", exec.db, "ok",
                       state_root_slow_with_updates(Self, HashedTransaction(exec.db),
                                                    addresses, keys))
    /\ UNCHANGED <<bundle, receipts, first_block>>
    /\ Called

NextRoot ==
    \/ \E address \in Addresses, info \in AccountInfos, new_storage \in CreatedStorages :
           CommitCreated(address, info, new_storage)
    \/ \E address \in Addresses, info \in AccountInfos, key \in StorageKeys,
          value \in WrittenValues :
           CommitChanged(address, info, key, value)
    \/ \E address \in Addresses : CommitSelfdestructed(address)
    \/ MergeTransitions
    \/ New
    \/ \E addresses \in IterationOrders(DOMAIN bundle.state),
          keys \in IterationOrders(StorageKeys) :
           StateRootSlow(addresses, keys)
    \/ \E addresses \in IterationOrders(DOMAIN bundle.state),
          keys \in IterationOrders(StorageKeys) :
           StateRootSlowWithUpdates(addresses, keys)

SpecRoot == ExecInit /\ [][NextRoot]_vars

\* ------------------------------------------------------------------------
\* Properties of the range operations
\* ------------------------------------------------------------------------

\* n is in the range [first_block, first_block + len) of the value s
Addressable(s, n) == s.first_block <= n /\ n < s.first_block + Len(s.receipts)

\* C1: revert_to(b) with b < first_block or b >= first_block + len returns false and
\* leaves the receipts, the revert layers, the account/storage entries and first_block
\* as they were before the call.
C1_RevertToOutOfRange ==
    (ret.op = "revert_to" /\ ~Addressable(pre, ret.arg))
        => (ret.result = "false" /\ Self = pre)

\* A revert_to of the block one past the last, on a bundle that holds receipts, revert
\* layers and entries.
C1_Witness ==
    /\ ret.op = "revert_to"
    /\ ret.arg = pre.first_block + Len(pre.receipts)
    /\ Len(pre.receipts) > 0
    /\ Len(pre.bundle.reverts) > 0
    /\ DOMAIN pre.bundle.state # {}
    /\ ret.result = "false"

\* What C2 says of the receipts, the range and the returned bool.
RevertToInRangeShape ==
    LET new_len == ret.arg - pre.first_block + 1
    IN  /\ ret.result = "true"
        /\ Len(receipts) = new_len
        /\ receipts = SubSeq(pre.receipts, 1, new_len)
        /\ first_block = pre.first_block
        /\ Addressable(Self, ret.arg)
        /\ ~Addressable(Self, ret.arg + 1)

\* C2 as claimed: revert_to(b) with first_block <= b < first_block + len returns true,
\* the bundle then covers exactly first_block..=b with the receipts of those blocks in
\* order, and exactly (old len - new len) trailing revert layers were popped.
C2_AsClaimed ==
    (ret.op = "revert_to" /\ Addressable(pre, ret.arg))
        => /\ RevertToInRangeShape
           /\ Len(bundle.reverts) =
                  Len(pre.bundle.reverts) - (Len(pre.receipts) - Len(receipts))

\* C2, amended: as claimed, but the number of trailing revert layers popped is the
\* smaller of (old len - new len) and the number of layers the bundle holds; the
\* layers left are the leading layers, in order.
C2_RevertToInRange ==
    (ret.op = "revert_to" /\ Addressable(pre, ret.arg))
        => /\ RevertToInRangeShape
           /\ LET popped == Min(Len(pre.receipts) - Len(receipts), Len(pre.bundle.reverts))
              IN  bundle.reverts =
                      SubSeq(pre.bundle.reverts, 1, Len(pre.bundle.reverts) - popped)

\* A revert_to that removed a block and popped a layer.
C2_Witness ==
    /\ ret.op = "revert_to"
    /\ Addressable(pre, ret.arg)
    /\ Len(receipts) < Len(pre.receipts)
    /\ Len(bundle.reverts) < Len(pre.bundle.reverts)

\* The present account of an address as a reader of the bundle sees it: the entry of
\* the bundle if there is one, else the account of the database the blocks ran on
PresentAccount(s, address) ==
    IF IsSome(account(s, address)) THEN Unwrap(account(s, address))
    ELSE OptionMap(exec.db[address].info, into_reth_acc)

\* The present value of a slot: the value the bundle knows, else the database's
PresentStorage(s, address, key) ==
    IF IsSome(storage(s, address, key)) THEN Unwrap(storage(s, address, key))
    ELSE exec.db[address].storage[key]

\* C3: for a bundle aggregated block by block with one revert layer per block, after
\* a revert_to(b) that returned true the present account and the present value of
\* every slot of every address are the ones they had at the end of block b, which
\* are also the ones the bundle aggregated from the blocks up to b gave.
C3_RevertToRestoresBlock ==
    (exec.phase = "taken" /\ ret.op = "revert_to" /\ ret.result = "true")
        => LET i == ret.arg - first_block + 1
               then == [ bundle |-> exec.snapshots[i],
                         receipts |-> SubSeq(pre.receipts, 1, i),
                         first_block |-> first_block ]
           IN  \A address \in Addresses :
                   /\ PresentAccount(Self, address) =
                          OptionMap(exec.history[i][address].info, into_reth_acc)
                   /\ PresentAccount(Self, address) = PresentAccount(then, address)
                   /\ \A key \in StorageKeys :
                          /\ PresentStorage(Self, address, key) =
                                 exec.history[i][address].storage[key]
                          /\ PresentStorage(Self, address, key) =
                                 PresentStorage(then, address, key)

\* C4: after a revert_to(b) that returned true, a revert_to(b') with b' >= b leaves
\* receipts, revert layers, entries and first_block unchanged.
C4_RevertToIdempotent ==
    (ret.op = "revert_to" /\ IsSome(prev) /\ ret.arg >= Unwrap(prev))
        => Self = pre

\* A second revert_to of the same block on a bundle that still holds a revert layer.
C4_Witness ==
    /\ ret.op = "revert_to"
    /\ IsSome(prev)
    /\ ret.arg = Unwrap(prev)
    /\ ret.result = "true"
    /\ Len(bundle.reverts) > 0

\* A value holds as many revert layers as receipt blocks
Balanced(s) == Len(s.bundle.reverts) = Len(s.receipts) /\ Len(s.receipts) = len(s)

\* C5 as claimed: in every reachable state the number of revert layers equals the
\* number of receipt blocks, and both equal len().
C5_AsClaimed == Balanced(Self)

\* C5, amended: new and new_init take any number of revert layers with any number of
\* receipt blocks; set_first_block, revert_to, split_at (both halves) and extend (with
\* an `other` that holds as many layers as receipt blocks) keep the two numbers equal
\* when they were equal before the call.
C5_LayersMatchReceipts ==
    ( /\ ret.op \in {"set_first_block", "revert_to", "split_at", "extend"}
      /\ ret.result # "panic"
      /\ Balanced(pre)
      /\ ret.op = "extend" => Balanced(ret.arg) )
        => /\ Balanced(Self)
           /\ (ret.op = "split_at" /\ IsSome(ret.value)) => Balanced(Unwrap(ret.value))

\* A split_at strictly inside the range of a bundle with two layers and two blocks.
C5_Witness ==
    /\ ret.op = "split_at"
    /\ ret.result = "ok"
    /\ Balanced(pre)
    /\ Len(pre.receipts) >= 2
    /\ IsSome(ret.value)
    /\ Len(bundle.reverts) > 0

\* C6: for every addressable block number b, block_number_to_index(b) returns
\* b - first_block, which is a valid index into the receipts (less than len).
C6_IndexOfAddressable ==
    (ret.op = "query" /\ Addressable(pre, ret.arg))
        => /\ ret.value.index = Some(ret.arg - pre.first_block)
           /\ Unwrap(ret.value.index) >= 0
           /\ Unwrap(ret.value.index) < len(pre)
           /\ ret.value.by_block = pre.receipts[Unwrap(ret.value.index) + 1]

\* A query of the last block of a bundle whose first block is not block 0.
C6_Witness ==
    /\ ret.op = "query"
    /\ pre.first_block > 0
    /\ Len(pre.receipts) >= 2
    /\ ret.arg = pre.first_block + Len(pre.receipts) - 1

C8_SplitInside ==
    (ret.op = "split_at" /\ pre.first_block < ret.arg
                         /\ ret.arg < pre.first_block + Len(pre.receipts))
        => LET n == ret.arg - pre.first_block
           IN  /\ ret.result = "ok"
               /\ IsSome(ret.value)
               /\ Unwrap(ret.value) = revert_to(pre, ret.arg - 1).self
               /\ Unwrap(ret.value).first_block = pre.first_block
               /\ Unwrap(ret.value).receipts = SubSeq(pre.receipts, 1, n)
               /\ len(Unwrap(ret.value)) = n
               /\ first_block = ret.arg
               /\ receipts = SubSeq(pre.receipts, n + 1, Len(pre.receipts))
               /\ bundle.reverts = SubSeq(pre.bundle.reverts, n + 1, Len(pre.bundle.reverts))
               /\ bundle.state = pre.bundle.state
               /\ len(Unwrap(ret.value)) + len(Self) = len(pre)

\* A split strictly inside the range that leaves a layer in the upper half and took a
\* layer out of the lower one.
C8_Witness ==
    /\ ret.op = "split_at"
    /\ pre.first_block < ret.arg
    /\ ret.arg < pre.first_block + Len(pre.receipts)
    /\ ret.result = "ok"
    /\ Len(bundle.reverts) > 0
    /\ Len(bundle.reverts) < Len(pre.bundle.reverts)
    /\ Len(Unwrap(ret.value).bundle.reverts) < Len(pre.bundle.reverts)

\* C9: split_at(at) with at == first_block returns no lower half and the original,
\* unchanged, as the upper half; also for an empty bundle.
C9_SplitAtFirstBlock ==
    (ret.op = "split_at" /\ ret.arg = pre.first_block)
        => /\ ret.result = "ok"
           /\ ret.value = None
           /\ Self = pre

\* A split_at(first_block) of a bundle that holds blocks and layers, with first_block
\* above 0.
C9_Witness ==
    /\ ret.op = "split_at"
    /\ ret.arg = pre.first_block
    /\ pre.first_block > 0
    /\ Len(pre.receipts) > 0
    /\ Len(pre.bundle.reverts) > 0

\* C10 as claimed: split_at(at) is defined for every at with
\* first_block < at <= first_block + len; for at == first_block + len it returns the
\* whole original as the lower half and an empty upper half rebased to at.
C10_AsClaimed ==
    (ret.op = "split_at" /\ pre.first_block < ret.arg
                         /\ ret.arg <= pre.first_block + Len(pre.receipts))
        => /\ ret.result = "ok"
           /\ ret.arg = pre.first_block + Len(pre.receipts)
                => /\ ret.value = Some(pre)
                   /\ receipts = <<>>
                   /\ first_block = ret.arg

\* C10, amended: split_at(at) returns exactly when at == first_block or
\* first_block < at < first_block + len; for every other at, and in particular for
\* at == first_block + len of a bundle that is not empty, it panics and returns
\* nothing.
C10_SplitDefinedInRange ==
    ret.op = "split_at"
        => /\ ret.result = "ok" <=> (Addressable(pre, ret.arg) \/ ret.arg = pre.first_block)
           /\ ret.result # "ok" => ret.result = "panic" /\ ret.value = None /\ Self = pre
           /\ (ret.arg = pre.first_block + Len(pre.receipts) /\ Len(pre.receipts) > 0)
                => ret.result = "panic"

\* A split_at of the block one past the last block of a bundle that is not empty.
C10_Witness ==
    /\ ret.op = "split_at"
    /\ Len(pre.receipts) > 0
    /\ ret.arg = pre.first_block + Len(pre.receipts)
    /\ ret.result = "panic"

\* C11: split_at(at) with at < first_block or at > first_block + len panics and
\* returns no halves.
C11_SplitOutsidePanics ==
    (ret.op = "split_at" /\ (ret.arg < pre.first_block
                               \/ ret.arg > pre.first_block + Len(pre.receipts)))
        => /\ ret.result = "panic"
           /\ ret.value = None

\* A split_at of the second block past the last one of a bundle that holds blocks.
C11_Witness ==
    /\ ret.op = "split_at"
    /\ Len(pre.receipts) > 0
    /\ ret.arg = pre.first_block + Len(pre.receipts) + 1
    /\ ret.result = "panic"

\* A block number that is no target of the range operations: outside the range for
\* revert_to, outside (first_block, first_block + len] and not first_block for split_at
OutOfRange(op, s, n) ==
    IF op = "revert_to" THEN ~Addressable(s, n)
    ELSE n < s.first_block \/ n > s.first_block + Len(s.receipts)

\* C12 as claimed: for every out-of-range block number revert_to and split_at
\* complete, with a false / no-match result, and change nothing.
C12_AsClaimed ==
    (ret.op \in {"revert_to", "split_at"} /\ OutOfRange(ret.op, pre, ret.arg))
        => /\ ret.result # "panic"
           /\ ret.result = "false" \/ ret.value = None
           /\ Self = pre

\* C12, amended: for every out-of-range block number revert_to completes, returns
\* false and changes nothing; split_at does not complete: it panics.
C12_OutOfRangeTargets ==
    /\ (ret.op = "revert_to" /\ OutOfRange("revert_to", pre, ret.arg))
           => (ret.result = "false" /\ Self = pre)
    /\ (ret.op = "split_at" /\ OutOfRange("split_at", pre, ret.arg))
           => ret.result = "panic"

\* A split_at of a block before first_block.
C12_Witness ==
    /\ ret.op = "split_at"
    /\ ret.arg < pre.first_block
    /\ ret.result = "panic"

\* C13 as claimed: for every at strictly inside the range, split_at(at) followed by
\* lower.extend(upper) gives a bundle with the present account and storage value of
\* every address, the receipts, the number of revert layers, the len and the
\* first_block of the original.
C13_AsClaimed ==
    ret.op = "split_at_extend"
        => /\ \A address \in Addresses :
                  /\ account(Self, address) = account(pre, address)
                  /\ \A key \in StorageKeys :
                         storage(Self, address, key) = storage(pre, address, key)
           /\ receipts = pre.receipts
           /\ Len(bundle.reverts) = Len(pre.bundle.reverts)
           /\ len(Self) = len(pre)
           /\ first_block = pre.first_block

\* C13, amended: for an original with as many revert layers as receipt blocks and
\* every at strictly inside the range, split_at(at) followed by lower.extend(upper)
\* gives a bundle with the receipts, the number of revert layers, the len and the
\* first_block of the original, in which every address the original holds has the
\* original's present account and every slot the original holds for it has the
\* original's present value.
C13_SplitExtendRoundTrip ==
    (ret.op = "split_at_extend" /\ Balanced(pre))
        => /\ \A address \in DOMAIN pre.bundle.state :
                  /\ account(Self, address) = account(pre, address)
                  /\ \A key \in DOMAIN pre.bundle.state[address].storage :
                         storage(Self, address, key) = storage(pre, address, key)
           /\ receipts = pre.receipts
           /\ Len(bundle.reverts) = Len(pre.bundle.reverts)
           /\ len(Self) = len(pre)
           /\ first_block = pre.first_block

\* A round trip of a bundle with two blocks and two layers, whose lower half differs
\* from the original in the present account.
C13_Witness ==
    /\ ret.op = "split_at_extend"
    /\ Balanced(pre)
    /\ Len(pre.receipts) >= 2
    /\ \E address \in DOMAIN pre.bundle.state :
           account(revert_to(pre, ret.arg - 1).self, address) # account(pre, address)

\* C14: self.extend(other) appends other's revert layers after self's and other's
\* receipt blocks after self's, in order, so that the new len is self.len + other.len;
\* it succeeds whatever other.first_block is and leaves self.first_block unchanged.
C14_ExtendAppends ==
    ret.op = "extend"
        => LET other == ret.arg
               n == Len(pre.bundle.reverts)
           IN  /\ ret.result = "ok"
               /\ receipts = pre.receipts \o other.receipts
               /\ len(Self) = len(pre) + len(other)
               /\ Len(bundle.reverts) = n + Len(other.bundle.reverts)
               /\ SubSeq(bundle.reverts, 1, n) = pre.bundle.reverts
               /\ \A i \in 1..Len(other.bundle.reverts) :
                      /\ DOMAIN bundle.reverts[n + i] = DOMAIN other.bundle.reverts[i]
                      /\ \A a \in DOMAIN other.bundle.reverts[i] :
                             /\ bundle.reverts[n + i][a].account =
                                    other.bundle.reverts[i][a].account
                             /\ bundle.reverts[n + i][a].previous_status =
                                    other.bundle.reverts[i][a].previous_status
               /\ first_block = pre.first_block

\* An extend by a bundle that holds a block and a layer and does not start where self
\* ends, on a bundle that holds blocks and layers.
C14_Witness ==
    /\ ret.op = "extend"
    /\ ret.arg.first_block # pre.first_block + Len(pre.receipts)
    /\ Len(ret.arg.receipts) > 0
    /\ Len(ret.arg.bundle.reverts) > 0
    /\ Len(pre.receipts) > 0
    /\ Len(pre.bundle.reverts) > 0

\* ------------------------------------------------------------------------
\* Properties of write_to_db
\* ------------------------------------------------------------------------

\* C15: write_to_db consumes the bundle: a value is open to revert_to, split_at,
\* extend and set_first_block until write_to_db is called on it, and no operation,
\* a second write_to_db included, is ever called on it afterwards.
C15_WriteConsumes == [][ret.op # "write_to_db"]_vars

\* A write_to_db that returned Ok on a value that an operation had changed before.
C15_Witness ==
    /\ ret.op = "write_to_db"
    /\ ret.result = "ok"
    /\ ops = MaxOps
    /\ pre.bundle.reverts # <<>>
    /\ tx.StorageChangeSet # <<>>

\* The accounts and slots as they were before the i-th executed block, and after it
WorldBefore(i) == IF i = 1 THEN exec.db ELSE exec.history[i - 1]

WorldAfter(i) == exec.history[i]

\* What a reader of the written tables finds
PlainAccount(t, address) ==
    IF address \in DOMAIN t.PlainAccountState THEN Some(t.PlainAccountState[address])
    ELSE None

PlainSlot(t, address, key) ==
    IF key \in DOMAIN t.PlainStorageState[address] THEN t.PlainStorageState[address][key]
    ELSE 0

AccountChanges(t, block_number, address) ==
    SelectSeq(t.AccountChangeSet,
              LAMBDA e : e.block_number = block_number /\ e.address = address)

StorageChanges(t, block_number, address) ==
    SelectSeq(t.StorageChangeSet,
              LAMBDA e : e.block_number = block_number /\ e.address = address)

SlotChanges(t, block_number, address, key) ==
    SelectSeq(StorageChanges(t, block_number, address), LAMBDA e : e.key = key)

\* write_to_db returned Ok on the bundle of the executed blocks
Written == exec.phase = "taken" /\ ret.op = "write_to_db" /\ ret.result = "ok"

\* C16: after write_to_db of the bundle of k executed blocks, the plain state holds
\* the final account and the final value of every slot of every address; the
\* change-set of block first_block + i has, for every address whose account and for
\* every slot whose value differs between the start and the end of the i-th block,
\* exactly one entry, and every entry of it records the account or the value from
\* immediately before that block; no entry is of a block outside
\* first_block..first_block + k - 1.
C16_PlainStateAndChangeSets ==
    Written =>
        LET k == Len(pre.bundle.reverts)
        IN  /\ \A address \in Addresses :
                   /\ PlainAccount(tx, address) =
                          OptionMap(exec.world[address].info, into_reth_acc)
                   /\ \A key \in StorageKeys :
                          PlainSlot(tx, address, key) = exec.world[address].storage[key]
            /\ \A i \in 1..k, address \in Addresses :
                   LET block_number == first_block + (i - 1)
                       account_changes == AccountChanges(tx, block_number, address)
                   IN  /\ Len(account_changes) <= 1
                       /\ WorldBefore(i)[address].info # WorldAfter(i)[address].info
                              => Len(account_changes) = 1
                       /\ \A e \in 1..Len(account_changes) :
                              account_changes[e].info =
                                  OptionMap(WorldBefore(i)[address].info, into_reth_acc)
                       /\ \A key \in StorageKeys :
                              LET slot_changes == SlotChanges(tx, block_number, address, key)
                              IN  /\ Len(slot_changes) <= 1
                                  /\ WorldBefore(i)[address].storage[key] #
                                         WorldAfter(i)[address].storage[key]
                                       => Len(slot_changes) = 1
                                  /\ \A e \in 1..Len(slot_changes) :
                                         slot_changes[e].value =
                                             WorldBefore(i)[address].storage[key]
            /\ \A e \in 1..Len(tx.AccountChangeSet) :
                   tx.AccountChangeSet[e].block_number \in first_block..(first_block + k - 1)
            /\ \A e \in 1..Len(tx.StorageChangeSet) :
                   tx.StorageChangeSet[e].block_number \in first_block..(first_block + k - 1)

\* A written bundle of more than one block in which an account and a slot changed in
\* a block that is not the first.
C16_Witness ==
    /\ Written
    /\ Len(pre.bundle.reverts) > 1
    /\ \E address \in Addresses, key \in StorageKeys :
           /\ WorldBefore(2)[address].info # WorldAfter(2)[address].info
           /\ WorldBefore(2)[address].storage[key] # WorldAfter(2)[address].storage[key]
           /\ Len(AccountChanges(tx, first_block + 1, address)) = 1
           /\ Len(SlotChanges(tx, first_block + 1, address, key)) = 1

\* The revert records write_to_db hands to the change-set writer
PlainStateReverts(s) == Reverts_into_plain_state_reverts(s.bundle.reverts)

\* In the i-th executed block the existing account of the address selfdestructed, was
\* created again, and then had a slot written
DestroyedRecreatedModified(i, address) ==
    /\ address \in DOMAIN exec.predestroy[i]
    /\ \E d, c, m \in 1..Len(exec.log[i]) :
           /\ d < c /\ c < m
           /\ exec.log[i][d].kind = "selfdestructed" /\ exec.log[i][d].address = address
           /\ exec.log[i][c].kind = "created" /\ exec.log[i][c].address = address
           /\ exec.log[i][m].kind = "changed" /\ exec.log[i][m].address = address
           /\ exec.log[i][m].slots # {}

\* A commit of an earlier block than the i-th selfdestructed the address, whether it
\* had an account or not
DestroyedEarlier(i, address) ==
    \E j \in 1..(i - 1) : \E c \in 1..Len(exec.log[j]) :
        exec.log[j][c].kind = "selfdestructed" /\ exec.log[j][c].address = address

\* The storage change-set of the block of the i-th layer holds for the address the
\* slots of the world's account, each once with its value, and at most
\* entries of value zero besides
RecordsSlotsOf(t, i, address, world_account) ==
    /\ \A key \in StorageKeys :
           LET slot_changes == SlotChanges(t, first_block + (i - 1), address, key)
           IN  /\ Len(slot_changes) <= 1
               /\ world_account.storage[key] # 0 => Len(slot_changes) = 1
               /\ \A e \in 1..Len(slot_changes) :
                      slot_changes[e].value = world_account.storage[key]

DestroyedThenWritten(n, m, address, key) ==
    /\ n < m
    /\ address \in DOMAIN exec.predestroy[n]
    /\ \E c \in 1..Len(exec.log[m]) :
           /\ exec.log[m][c].address = address
           /\ exec.log[m][c].kind \in {"created", "changed"}
           /\ key \in exec.log[m][c].slots

\* C18 as claimed: when an account is destroyed in block N and a slot of it is
\* written in a later block, the later block's change-set entry of the slot records
\* zero, and block N's change-set records the slots the account had before the
\* destruction, read as before block N.
C18_AsClaimed ==
    Written =>
        \A n, m \in 1..Len(pre.bundle.reverts), address \in Addresses, key \in StorageKeys :
            DestroyedThenWritten(n, m, address, key)
                => /\ LET slot_changes == SlotChanges(tx, first_block + (m - 1), address, key)
                      IN  \A e \in 1..Len(slot_changes) : slot_changes[e].value = 0
                   /\ RecordsSlotsOf(tx, n, address, WorldBefore(n)[address])

\* C18, amended: when an account is destroyed in block N and a slot of it is written
\* in a later block, the later block's change-set entry of the slot records the
\* value from immediately before the later block: zero if the slot was not written
\* between the destruction and the later block, else the value written since the
\* destruction; block N's change-set records every slot the account had before
\* block N with its value from before block N.
C18_WriteAfterDestroy ==
    Written =>
        \A n, m \in 1..Len(pre.bundle.reverts), address \in Addresses, key \in StorageKeys :
            DestroyedThenWritten(n, m, address, key)
                => /\ LET slot_changes == SlotChanges(tx, first_block + (m - 1), address, key)
                      IN  /\ Len(slot_changes) <= 1
                          /\ WorldBefore(m)[address].storage[key] #
                                 WorldAfter(m)[address].storage[key]
                               => Len(slot_changes) = 1
                          /\ \A e \in 1..Len(slot_changes) :
                                 slot_changes[e].value = WorldBefore(m)[address].storage[key]
                   /\ RecordsSlotsOf(tx, n, address, WorldBefore(n)[address])

\* A written bundle in which an account with a slot in the database was destroyed in
\* one block and the slot was written in a later block: the later block's entry is
\* zero, the destroying block's entry is the database's value.
C18_Witness ==
    /\ Written
    /\ \E n, m \in 1..Len(pre.bundle.reverts), address \in Addresses, key \in StorageKeys :
           /\ DestroyedThenWritten(n, m, address, key)
           /\ exec.db[address].storage[key] # 0
           /\ WorldBefore(m)[address].storage[key] = 0
           /\ Len(SlotChanges(tx, first_block + (m - 1), address, key)) = 1
           /\ SlotChanges(tx, first_block + (m - 1), address, key)[1].value = 0
           /\ Len(SlotChanges(tx, first_block + (n - 1), address, key)) = 1
           /\ SlotChanges(tx, first_block + (n - 1), address, key)[1].value =
                  exec.db[address].storage[key]

\* The account of the address, which existed before the n-th executed block, does not
\* exist after the last block, and the n-th block is the last one that destroyed it
DestroyedFor(n, address) ==
    /\ exec.world[address].info = None
    /\ address \in DOMAIN exec.predestroy[n]
    /\ \A j \in (n + 1)..Len(exec.predestroy) : address \notin DOMAIN exec.predestroy[j]
    /\ WorldBefore(n)[address].info # None

\* The plain tables hold neither the account nor a slot of the address, and the
\* change-sets of the block of the n-th layer hold the account and every slot from
\* before that block
RemovedAndRecorded(t, n, address) ==
    /\ PlainAccount(t, address) = None
    /\ t.PlainStorageState[address] = EmptyMap
    /\ Len(AccountChanges(t, first_block + (n - 1), address)) = 1
    /\ AccountChanges(t, first_block + (n - 1), address)[1].info =
           OptionMap(WorldBefore(n)[address].info, into_reth_acc)
    /\ RecordsSlotsOf(t, n, address, WorldBefore(n)[address])

\* C19 as claimed: after the commit of a bundle that leaves an address destroyed, the
\* plain tables hold neither its account nor a slot of it, and the revert record of
\* the destroying block is marked wiped and carries the prior account and every
\* prior slot value.
C19_AsClaimed ==
    Written =>
        \A n \in 1..Len(pre.bundle.reverts), address \in Addresses :
            DestroyedFor(n, address)
                => /\ RemovedAndRecorded(tx, n, address)
                   /\ address \in DOMAIN PlainStateReverts(pre).storage[n]
                   /\ PlainStateReverts(pre).storage[n][address].wiped

\* C19, amended: after the commit of a bundle that leaves an address destroyed, the
\* plain tables hold neither its account nor a slot of it, and the change-sets of the
\* destroying block carry the account and every slot value from before that block;
\* the revert record of the destroying block is marked wiped if and only if no
\* commit of an earlier block of the bundle selfdestructed the address, and a record
\* that is not marked wiped lists the slots itself.
C19_DestroyedAccountRemoved ==
    Written =>
        \A n \in 1..Len(pre.bundle.reverts), address \in Addresses :
            DestroyedFor(n, address)
                => /\ RemovedAndRecorded(tx, n, address)
                   /\ ~DestroyedEarlier(n, address)
                          => /\ address \in DOMAIN PlainStateReverts(pre).storage[n]
                             /\ PlainStateReverts(pre).storage[n][address].wiped
                   /\ (/\ DestroyedEarlier(n, address)
                       /\ address \in DOMAIN PlainStateReverts(pre).storage[n])
                          => ~PlainStateReverts(pre).storage[n][address].wiped
                   /\ \A key \in StorageKeys :
                          (/\ address \in DOMAIN PlainStateReverts(pre).storage[n]
                           /\ ~PlainStateReverts(pre).storage[n][address].wiped
                           /\ WorldBefore(n)[address].storage[key] # 0)
                              => key \in DOMAIN
                                     PlainStateReverts(pre).storage[n][address].storage_revert

\* A written bundle that destroyed an account the database holds with two slots: the
\* plain tables hold nothing of it, the change-set holds the account and both slots.
C19_Witness ==
    /\ Written
    /\ \E n \in 1..Len(pre.bundle.reverts), address \in Addresses :
           /\ DestroyedFor(n, address)
           /\ ret.arg.tx.PlainStorageState[address] # EmptyMap
           /\ PlainAccount(ret.arg.tx, address) # None
           /\ PlainAccount(tx, address) = None
           /\ tx.PlainStorageState[address] = EmptyMap
           /\ Len(StorageChanges(tx, first_block + (n - 1), address)) = 2
           /\ PlainStateReverts(pre).storage[n][address].wiped

\* The i-th executed block is the last one that changed the account of the address
LastAccountChange(i, address) ==
    \A j \in i..Len(exec.history) : exec.history[j][address].info = WorldAfter(i)[address].info

\* C20: after write_to_db with OriginalValuesKnown::Yes, for an account that did not
\* exist before the bundle and that a block created, the account change-set of that
\* block has one entry for the address, with no prior account, and the plain state
\* returns exactly the created account; for an account that existed before a block
\* and that the block changed, the change-set of that block has one entry with the
\* prior account, and the plain state returns the new one. The plain state is read
\* for the last block that changed the account.
C20_AccountInfoRoundTrip ==
    (Written /\ ret.arg.is_value_known) =>
        \A i \in 1..Len(pre.bundle.reverts), address \in Addresses :
            LET account_changes == AccountChanges(tx, first_block + (i - 1), address)
                created == /\ exec.db[address].info = None
                           /\ WorldBefore(i)[address].info = None
                           /\ WorldAfter(i)[address].info # None
                changed == /\ WorldBefore(i)[address].info # None
                           /\ WorldAfter(i)[address].info # None
                           /\ WorldBefore(i)[address].info # WorldAfter(i)[address].info
            IN  /\ created => /\ Len(account_changes) = 1
                              /\ account_changes[1].info = None
                /\ changed => /\ Len(account_changes) = 1
                              /\ account_changes[1].info =
                                     Some(into_reth_acc(Unwrap(WorldBefore(i)[address].info)))
                /\ ((created \/ changed) /\ LastAccountChange(i, address))
                       => PlainAccount(tx, address) =
                              Some(into_reth_acc(Unwrap(WorldAfter(i)[address].info)))

\* A bundle written with originals known in which the first block created an account
\* the database did not hold and the second block changed it.
C20_Witness ==
    /\ Written
    /\ ret.arg.is_value_known
    /\ Len(pre.bundle.reverts) > 1
    /\ \E address \in Addresses :
           /\ exec.db[address].info = None
           /\ WorldAfter(1)[address].info # None
           /\ WorldAfter(2)[address].info # None
           /\ WorldAfter(2)[address].info # WorldAfter(1)[address].info
           /\ LastAccountChange(2, address)
           /\ AccountChanges(tx, first_block, address)[1].info = None
           /\ PlainAccount(tx, address) =
                  Some(into_reth_acc(Unwrap(WorldAfter(2)[address].info)))

\* ------------------------------------------------------------------------
\* Properties of the receipts and of the failures of write_to_db
\* ------------------------------------------------------------------------

\* The receipts write_to_db is to write for the blocks from index `from` on, by key:
\* the receipt of slot j of the block of index i at first_tx_num + j
ReceiptsToWrite(s, bodies, from) ==
    { <<bodies[s.first_block + i].first_tx_num + j, Unwrap(s.receipts[i + 1][j + 1])>> :
        <<i, j>> \in { p \in (from..(Len(s.receipts) - 1)) \X (0..1) :
                         /\ p[2] < Len(s.receipts[p[1] + 1])
                         /\ s.receipts[p[1] + 1][p[2] + 1] # None
                         /\ s.first_block + p[1] \in DOMAIN bodies } }

\* The entries of a table, as a set
Entries(table) == { table[e] : e \in 1..Len(table) }

\* C21: a write_to_db that returned Ok wrote each kept receipt of the block
\* first_block + i at the key first_tx_num(block) + its offset within the block,
\* pruned slots counted; it wrote nothing for a pruned slot, and no other key.
C21_ReceiptKeys ==
    (ret.op = "write_to_db" /\ ret.result = "ok")
        => /\ Entries(tx.Receipts) = ReceiptsToWrite(pre, tx.BlockBodyIndices, 0)
           /\ Len(tx.Receipts) = Cardinality(Entries(tx.Receipts))

\* A write that returned Ok on two blocks, the first not block 0, the second with a
\* pruned slot before a kept one.
C21_Witness ==
    /\ ret.op = "write_to_db"
    /\ ret.result = "ok"
    /\ pre.first_block > 0
    /\ Len(pre.receipts) = 2
    /\ pre.receipts[1] = <<Some(Receipt1)>>
    /\ pre.receipts[2] = <<None, Some(Receipt2)>>
    /\ tx.Receipts = << <<2 * pre.first_block, Receipt1>>,
                        <<2 * (pre.first_block + 1) + 1, Receipt2>> >>

\* The blocks of s with at least one receipt slot, pruned or kept
BlocksWithSlots(s) ==
    { s.first_block + (i - 1) : i \in { x \in 1..Len(s.receipts) : s.receipts[x] # <<>> } }

\* The blocks of s with at least one kept receipt
BlocksWithKeptReceipt(s) ==
    { s.first_block + (i - 1) :
        i \in { x \in 1..Len(s.receipts) : FilterSome(s.receipts[x]) # <<>> } }

\* C22 as claimed: write_to_db looks up the body indices only of blocks with at least
\* one kept receipt; a block whose slots are all pruned is not looked up.
C22_AsClaimed ==
    ret.op = "write_to_db" => tx.seeks \subseteq BlocksWithKeptReceipt(pre)

\* C22: write_to_db looks up the body indices of no block but those with at least
\* one receipt slot, pruned or kept; a write that returned Ok looked up every such
\* block, all-pruned ones included, and found the body indices of each; a block
\* without any slot is never looked up.
C22_LookupPerBlockWithSlots ==
    ret.op = "write_to_db"
        => /\ tx.seeks \subseteq BlocksWithSlots(pre)
           /\ ret.result = "ok"
                => /\ tx.seeks = BlocksWithSlots(pre)
                   /\ tx.seeks \subseteq DOMAIN tx.BlockBodyIndices

\* A write that returned Ok although the body indices of a block are missing: the
\* block has no slot; the block before it, all pruned, was looked up.
C22_Witness ==
    /\ ret.op = "write_to_db"
    /\ ret.result = "ok"
    /\ pre.receipts = << <<None>>, <<>> >>
    /\ pre.first_block + 1 \notin DOMAIN tx.BlockBodyIndices
    /\ tx.seeks = {pre.first_block}
    /\ tx.Receipts = <<>>

\* The first block write_to_db looks up and finds no body indices of
FirstMissing(s, bodies) ==
    LET missing == BlocksWithSlots(s) \ DOMAIN bodies
    IN  CHOOSE b \in missing : \A other \in missing : b <= other

\* C23: when a block with a kept receipt has no body indices, write_to_db does not
\* return Ok, and panics unless the storage failed before; when write_to_db panics,
\* the receipts table holds the receipts of the blocks before the block whose body
\* indices are missing and none of that block or a later one, and the plain state is
\* what it was before the call.
C23_MissingBodyIndicesPanic ==
    ret.op = "write_to_db"
        => /\ BlocksWithKeptReceipt(pre) \ DOMAIN tx.BlockBodyIndices # {}
                => /\ ret.result # "ok"
                   /\ ret.arg.fails = "none" => ret.result = "panic"
           /\ ret.result = "panic"
                => LET b == FirstMissing(pre, tx.BlockBodyIndices)
                   IN  /\ BlocksWithSlots(pre) \ DOMAIN tx.BlockBodyIndices # {}
                       /\ Entries(tx.Receipts) =
                              ReceiptsToWrite(pre, tx.BlockBodyIndices, 0)
                                  \ ReceiptsToWrite(pre, tx.BlockBodyIndices,
                                                    b - pre.first_block)
                       /\ tx.PlainAccountState = ret.arg.tx.PlainAccountState
                       /\ tx.PlainStorageState = ret.arg.tx.PlainStorageState

\* A write that panicked at the second block, a block with a kept receipt: the
\* change-sets and the receipt of the first block are written, and the plain state,
\* which the bundle changes, is not.
C23_Witness ==
    /\ ret.op = "write_to_db"
    /\ ret.result = "panic"
    /\ Len(pre.receipts) = 2
    /\ pre.receipts[2] = <<None, Some(Receipt2)>>
    /\ tx.Receipts = << <<2 * pre.first_block, Receipt1>> >>
    /\ tx.AccountChangeSet # <<>>
    /\ StateChanges_write_to_db(tx, BundleState_into_plain_state(pre.bundle, TRUE)) # tx

\* The tables after the first step of the write_to_db that returned: the change-sets
\* are written
RevertsWritten ==
    StateReverts_write_to_db(
        ret.arg.tx,
        BundleState_into_plain_state_and_reverts(pre.bundle, ret.arg.is_value_known).reverts,
        pre.first_block)

\* The storage failed in a step of the write_to_db that returned: the step named by
\* `fails` was reached and had an operation to fail in
StepFailed ==
    \/ ret.arg.fails \in {"reverts", "receipts", "plain_state"}
    \/ ret.arg.fails = "seek" /\ BlocksWithSlots(pre) # {}
    \/ ret.arg.fails = "append" /\ BlocksWithKeptReceipt(pre) # {}

\* The plain tables are what they were before the call
PlainStateUntouched ==
    /\ tx.PlainAccountState = ret.arg.tx.PlainAccountState
    /\ tx.PlainStorageState = ret.arg.tx.PlainStorageState

\* C24: a storage error in a step of write_to_db is returned as Err, and no later
\* step runs: after a failure of the reverts nothing is written; after a failure of
\* opening the cursors, of the lookup or of an append, the change-sets are written,
\* no receipt from the failing one on, and no plain state; after a failure of the
\* plain state the change-sets and all receipts are written; Ok is not returned.
C24_ErrorsPropagate ==
    ret.op = "write_to_db"
        => /\ StepFailed => ret.result = "err"
           /\ ret.result = "err" => PlainStateUntouched
           /\ ret.arg.fails = "reverts" => tx = ret.arg.tx
           /\ ret.arg.fails = "receipts" => tx = RevertsWritten
           /\ (ret.arg.fails = "seek" /\ StepFailed)
                => tx = [RevertsWritten EXCEPT
                           !.seeks = {FirstMissing(pre, EmptyMap)}]
           /\ (ret.arg.fails = "append" /\ StepFailed)
                => /\ tx.Receipts = <<>>
                   /\ tx.AccountChangeSet = RevertsWritten.AccountChangeSet
                   /\ tx.StorageChangeSet = RevertsWritten.StorageChangeSet
           /\ ret.arg.fails = "plain_state"
                => /\ Entries(tx.Receipts) = ReceiptsToWrite(pre, tx.BlockBodyIndices, 0)
                   /\ tx.AccountChangeSet = RevertsWritten.AccountChangeSet
                   /\ tx.StorageChangeSet = RevertsWritten.StorageChangeSet
           /\ (ret.result = "err" /\ ret.arg.fails = "none")
                => /\ Entries(tx.Receipts) \subseteq
                          ReceiptsToWrite(pre, tx.BlockBodyIndices, 0)
                   /\ Entries(tx.Receipts) # ReceiptsToWrite(pre, tx.BlockBodyIndices, 0)

\* A write whose last step failed: Err is returned, the change-sets and two receipts
\* are in the tables, and the plain state, which the bundle changes, is not written.
C24_Witness ==
    /\ ret.op = "write_to_db"
    /\ ret.arg.fails = "plain_state"
    /\ ret.result = "err"
    /\ Len(tx.Receipts) = 2
    /\ tx.AccountChangeSet # <<>>
    /\ StateChanges_write_to_db(tx, BundleState_into_plain_state(pre.bundle, TRUE)) # tx

\* ------------------------------------------------------------------------
\* Properties of the read accessors and of the hashed projection
\* ------------------------------------------------------------------------

\* C25: account(address) is None exactly when the address is not in the bundle,
\* Some(None) exactly when it is in the bundle with no present account, and otherwise
\* Some(Some(a)) with a the present account.
C25_AccountThreeWay ==
    ret.op = "account"
        => LET address == ret.arg
               contained == address \in DOMAIN pre.bundle.state
           IN  /\ ret.value = None <=> ~contained
               /\ ret.value = Some(None)
                    <=> (contained /\ pre.bundle.state[address].info = None)
               /\ (contained /\ pre.bundle.state[address].info # None)
                    => ret.value =
                           Some(Some(into_reth_acc(Unwrap(pre.bundle.state[address].info))))

\* account returned Some(None) for a destroyed account, in a bundle that does not
\* contain the other address.
C25_Witness ==
    /\ ret.op = "account"
    /\ ret.arg = "a1"
    /\ ret.value = Some(None)
    /\ pre.bundle.state["a1"].status = "Destroyed"
    /\ "a2" \notin DOMAIN pre.bundle.state

\* C26: storage(address, key) is None when the address is not in the bundle, and
\* when the slot is not recorded for an account whose storage is not known; it is
\* the present value of a recorded slot, zero included, and zero for a slot not
\* recorded for an account whose storage is known.
C26_StorageKnownOrNone ==
    ret.op = "storage"
        => LET address == ret.arg[1]
               key == ret.arg[2]
               contained == address \in DOMAIN pre.bundle.state
               acc == pre.bundle.state[address]
           IN  /\ ~contained => ret.value = None
               /\ (contained /\ key \in DOMAIN acc.storage)
                    => ret.value = Some(acc.storage[key].present_value)
               /\ (contained /\ key \notin DOMAIN acc.storage)
                    => ret.value = IF is_storage_known(acc.status) THEN Some(0) ELSE None

\* storage returned Some(0) for a slot the bundle records with present value zero and
\* another original value.
C26_Witness ==
    /\ ret.op = "storage"
    /\ ret.arg = <<"a1", "k1">>
    /\ ret.value = Some(0)
    /\ "k1" \in DOMAIN pre.bundle.state["a1"].storage
    /\ pre.bundle.state["a1"].storage["k1"] = StorageSlot(1, 0)

\* The places of a (key, value) vector that hold the key
PlacesOf(v, key) == { i \in 1..Len(v) : v[i][1] = key }

\* The keys of a (key, value) vector are in ascending order, none twice
Ascending(v) == \A i, j \in 1..Len(v) : i < j => v[i][1] < v[j][1]

\* C27: the projection holds the hash of every address of the bundle in exactly one
\* of two places: in the destroyed accounts if the present account is absent, and
\* otherwise once in the accounts, with the present account; it holds no hashed
\* address that is not the hash of an address of the bundle.
C27_DestroyedOrAccount ==
    ret.op = "hash_state_slow"
        => LET state == pre.bundle.state
               hashed_state == ret.value
           IN  /\ \A address \in DOMAIN state :
                    LET hashed_address == keccak256(address)
                        places == PlacesOf(hashed_state.accounts, hashed_address)
                    IN  IF state[address].info = None
                        THEN /\ hashed_address \in hashed_state.destroyed_accounts
                             /\ places = {}
                        ELSE /\ hashed_address \notin hashed_state.destroyed_accounts
                             /\ Cardinality(places) = 1
                             /\ \A i \in places :
                                  hashed_state.accounts[i][2] =
                                      into_reth_acc(Unwrap(state[address].info))
               /\ hashed_state.destroyed_accounts
                      \cup { hashed_state.accounts[i][1] :
                               i \in 1..Len(hashed_state.accounts) }
                      \cup DOMAIN hashed_state.storages
                    = { keccak256(address) : address \in DOMAIN state }

\* The projection of a bundle with a destroyed account and an account destroyed and
\* created again: the first is in the destroyed accounts, the second in the accounts.
C27_Witness ==
    /\ ret.op = "hash_state_slow"
    /\ DOMAIN pre.bundle.state = {"a1", "a2"}
    /\ pre.bundle.state["a1"].status = "Destroyed"
    /\ pre.bundle.state["a2"].status = "DestroyedChanged"
    /\ ret.value.destroyed_accounts = {keccak256("a1")}
    /\ Len(ret.value.accounts) = 1
    /\ ret.value.accounts[1][1] = keccak256("a2")

\* C28: the projection holds every slot the bundle records for an address, under
\* the hash of its key, in exactly one of two forms: among the zero-valued slots if
\* its present value is zero, and otherwise once among the non-zero slots, with its
\* present value; it holds no other slot, whatever the original values are.
C28_SlotsByPresentValue ==
    ret.op = "hash_state_slow"
        => \A address \in DOMAIN pre.bundle.state :
             LET slots == pre.bundle.state[address].storage
                 hashed == ret.value.storages[keccak256(address)]
             IN  /\ \A key \in DOMAIN slots :
                      LET hashed_key == keccak256(key)
                          places == PlacesOf(hashed.non_zero_valued_storage, hashed_key)
                      IN  IF slots[key].present_value = 0
                          THEN /\ hashed_key \in hashed.zero_valued_slots
                               /\ places = {}
                          ELSE /\ hashed_key \notin hashed.zero_valued_slots
                               /\ Cardinality(places) = 1
                               /\ \A i \in places :
                                    hashed.non_zero_valued_storage[i][2] =
                                        slots[key].present_value
                 /\ hashed.zero_valued_slots
                        \cup { hashed.non_zero_valued_storage[i][1] :
                                 i \in 1..Len(hashed.non_zero_valued_storage) }
                      = { keccak256(key) : key \in DOMAIN slots }

\* The projection of an account with a slot zeroed from 1 and a slot written from 2
\* to 3: the first is a zero-valued slot, the second a non-zero slot with value 3.
C28_Witness ==
    /\ ret.op = "hash_state_slow"
    /\ "a1" \in DOMAIN pre.bundle.state
    /\ pre.bundle.state["a1"].status = "Changed"
    /\ DOMAIN pre.bundle.state["a1"].storage = {"k1", "k2"}
    /\ pre.bundle.state["a1"].storage["k1"] = StorageSlot(1, 0)
    /\ ret.value.storages[keccak256("a1")].zero_valued_slots = {keccak256("k1")}
    /\ ret.value.storages[keccak256("a1")].non_zero_valued_storage
           = << <<keccak256("k2"), 3>> >>

\* C29: the storage of an address is marked wiped in the projection exactly when
\* the status of the address says it was destroyed; an address destroyed and created
\* again is in the accounts with its present account and not in the destroyed
\* accounts, its storage is marked wiped, and the slots written after the
\* re-creation are recorded.
C29_WipedIffDestroyed ==
    ret.op = "hash_state_slow"
        => \A address \in DOMAIN pre.bundle.state :
             LET acc == pre.bundle.state[address]
                 hashed_address == keccak256(address)
                 hashed == ret.value.storages[hashed_address]
             IN  /\ hashed.wiped <=> was_destroyed(acc.status)
                 /\ acc.status = "DestroyedChanged"
                      => /\ hashed.wiped
                         /\ hashed_address \notin ret.value.destroyed_accounts
                         /\ \E i \in 1..Len(ret.value.accounts) :
                              ret.value.accounts[i] =
                                  <<hashed_address, into_reth_acc(Unwrap(acc.info))>>
                         /\ \A key \in DOMAIN acc.storage :
                              IF acc.storage[key].present_value = 0
                              THEN keccak256(key) \in hashed.zero_valued_slots
                              ELSE \E i \in 1..Len(hashed.non_zero_valued_storage) :
                                     hashed.non_zero_valued_storage[i] =
                                         <<keccak256(key), acc.storage[key].present_value>>

\* The projection of an account destroyed and created again with a slot written and
\* a slot zeroed: the account is registered, its storage is marked wiped, and both
\* slots are recorded.
C29_Witness ==
    /\ ret.op = "hash_state_slow"
    /\ DOMAIN pre.bundle.state = {"a2"}
    /\ pre.bundle.state["a2"].status = "DestroyedChanged"
    /\ DOMAIN pre.bundle.state["a2"].storage = {"k1", "k2"}
    /\ ret.value.destroyed_accounts = {}
    /\ ret.value.accounts = << <<keccak256("a2"), Account1>> >>
    /\ ret.value.storages[keccak256("a2")].wiped
    /\ ret.value.storages[keccak256("a2")].non_zero_valued_storage
           = << <<keccak256("k1"), 1>> >>
    /\ ret.value.storages[keccak256("a2")].zero_valued_slots = {keccak256("k2")}

\* C30: the projection is the same in whatever orders the entries of the bundle and
\* the slots of an account are iterated, and its accounts and the non-zero slots of
\* each account are in ascending order of their hashed keys.
C30_ProjectionDeterministic ==
    ret.op = "hash_state_slow"
        => /\ \A addresses \in IterationOrders(DOMAIN pre.bundle.state),
                 keys \in IterationOrders(StorageKeys) :
                  hash_state_slow(pre, addresses, keys) = ret.value
           /\ Ascending(ret.value.accounts)
           /\ \A hashed_address \in DOMAIN ret.value.storages :
                Ascending(ret.value.storages[hashed_address].non_zero_valued_storage)

\* The projection of two accounts, one with two non-zero slots, iterated in the order
\* opposite to the order of the hashes: the accounts and the slots are in the order
\* of the hashes.
C30_Witness ==
    /\ ret.op = "hash_state_slow"
    /\ ret.arg = << <<"a1", "a2">>, <<"k1", "k2">> >>
    /\ Len(ret.value.accounts) = 2
    /\ ret.value.accounts[1][1] = keccak256("a2")
    /\ ret.value.accounts[2][1] = keccak256("a1")
    /\ ret.value.storages[keccak256("a1")].non_zero_valued_storage
           = << <<keccak256("k2"), 3>>, <<keccak256("k1"), 1>> >>

\* ------------------------------------------------------------------------
\* Properties of the state root
\* ------------------------------------------------------------------------

\* C31: on the database the blocks ran on, state_root_slow of the bundle of the
\* executed blocks is the root computed from scratch over the accounts and slots after
\* the last block, and state_root_slow_with_updates returns the same root.
C31_RootOfPostState ==
    /\ ret.op = "state_root_slow" => ret.value = state_root(exec.world)
    /\ ret.op = "state_root_slow_with_updates" => ret.value[1] = state_root(exec.world)

\* The root of a bundle in which the account of the database was destroyed and
\* created again with a slot: the root is of the new account with that slot alone,
\* and it is not the root of the database.
C31_Witness ==
    /\ ret.op = "state_root_slow"
    /\ IsSome(exec.db["a1"].info)
    /\ "a1" \in DOMAIN pre.bundle.state
    /\ pre.bundle.state["a1"].status = "DestroyedChanged"
    /\ exec.world["a1"].storage = [k \in StorageKeys |-> IF k = "k2" THEN 3 ELSE 0]
    /\ ret.value = { <<keccak256("a1"), into_reth_acc(Unwrap(exec.world["a1"].info)),
                       { <<keccak256("k2"), 3>> }>> }
    /\ ret.value # state_root(exec.db)

\* ------------------------------------------------------------------------
\* Properties of the accessors keyed by block number
\* ------------------------------------------------------------------------

\* The logs of the slots of a block from the first slot on: the logs of a kept
\* receipt in their order, nothing for a pruned slot
RECURSIVE LogsOfSlots(_)
LogsOfSlots(block_receipts) ==
    IF block_receipts = <<>> THEN <<>>
    ELSE (IF Head(block_receipts) = None THEN <<>> ELSE Unwrap(Head(block_receipts)).logs)
             \o LogsOfSlots(Tail(block_receipts))

\* C32: logs of an addressable block are the logs of the kept receipts of the
\* block, receipts in the order of their slots and the logs of a receipt in their
\* order, pruned slots passed over; the call leaves the bundle as it was, and a
\* second call on the same block yields what the first one did.
C32_LogsInOrder ==
    /\ [](ret.op = "query"
            => /\ Self = pre
               /\ Addressable(pre, ret.arg)
                    => ret.value.logs =
                           Some(LogsOfSlots(pre.receipts[ret.arg - pre.first_block + 1])))
    /\ [][(ret.op = "query" /\ ret'.op = "query" /\ ret'.arg = ret.arg)
            => ret'.value.logs = ret.value.logs]_vars

\* The second query of a bundle, on a block of two kept receipts around a pruned
\* one: the logs of the first receipt come before the log of the last.
C32_Witness ==
    /\ ret.op = "query"
    /\ ops = 2
    /\ Addressable(pre, ret.arg)
    /\ pre.receipts[ret.arg - pre.first_block + 1] = <<Some(Receipt2), None, Some(Receipt1)>>
    /\ ret.value.logs = Some(<<"l2", "l3", "l1">>)


\* The revert layer new_init builds from the entry of one block number
LayerOf(layer_init) ==
    new_init(EmptyMap, [n \in {0} |-> layer_init], <<0>>, <<>>, 0).bundle.reverts[1]

\* The account change-set entries a write_to_db added
AccountChangesWritten ==
    { tx.AccountChangeSet[e] :
        e \in (Len(ret.arg.tx.AccountChangeSet) + 1)..Len(tx.AccountChangeSet) }

\* C33: new_init installs the revert layers in ascending order of block number
\* whatever order the input map yields its entries in: the layer at position i is
\* the one of the i-th smallest block number. The block numbers themselves are not
\* kept: write_to_db numbers the account change-sets of layer i first_block + i - 1,
\* also when the block numbers of the input had a gap.
C33_LayersAscending ==
    LET keys == SortedKeys(DOMAIN exec.revert_init)
    IN  /\ Len(bundle.reverts) = Len(keys)
        /\ \A i \in 1..Len(keys) : bundle.reverts[i] = LayerOf(exec.revert_init[keys[i]])
        /\ (ret.op = "write_to_db" /\ ret.result = "ok") =>
              AccountChangesWritten =
                  { [ block_number |-> first_block + (i - 1),
                      address |-> a,
                      info |-> Unwrap(exec.revert_init[keys[i]][a][1]) ] :
                    i \in 1..Len(keys), a \in {"a1"} }

C33_Witness ==
    /\ ret.op = "write_to_db"
    /\ ret.result = "ok"
    /\ DOMAIN exec.revert_init = {0, 2}
    /\ exec.iteration = <<2, 0>>
    /\ first_block = 0
    /\ AccountChangesWritten =
           { [block_number |-> 0, address |-> "a1", info |-> None],
             [block_number |-> 1, address |-> "a1", info |-> Some(Account1)] }


\* The place of a storage key in the order of the keys
KeyPlace(key) == CHOOSE i \in 1..Len(KeyOrder) : KeyOrder[i] = key

\* The place, among the commits of the i-th executed block, of the first one that
\* gave the slot of the address a new value; 0 if there is none
FirstCommit(i, address, key) ==
    LET places == { c \in 1..Len(exec.log[i]) : /\ exec.log[i][c].address = address
                                                /\ key \in exec.log[i][c].slots }
    IN  IF places = {} THEN 0 ELSE CHOOSE c \in places : \A d \in places : c <= d

\* C34 as claimed: the storage change-set entries of one (block, address) are in
\* the order in which the block committed their slots.
C34_AsClaimed ==
    Written =>
        \A i \in 1..Len(pre.bundle.reverts), address \in Addresses :
            LET changes == StorageChanges(tx, first_block + (i - 1), address)
            IN  \A p, q \in 1..Len(changes) :
                    (/\ p < q
                     /\ FirstCommit(i, address, changes[p].key) > 0
                     /\ FirstCommit(i, address, changes[q].key) > 0)
                        => FirstCommit(i, address, changes[p].key)
                               < FirstCommit(i, address, changes[q].key)

\* C34: the storage change-set entries a commit writes for one (block, address) are
\* in ascending order of their slot keys, no key twice, whatever the order in which
\* the block committed the slots; the blocks are in ascending order and the entries
\* of one (block, address) are next to each other, so that reading the change-set of
\* a (block, address) back gives its duplicates in one fixed order.
C34_SlotsInKeyOrder ==
    Written =>
        /\ \A p, q \in 1..Len(tx.StorageChangeSet) :
               p < q =>
                   LET e == tx.StorageChangeSet[p]
                       f == tx.StorageChangeSet[q]
                   IN  /\ e.block_number <= f.block_number
                       /\ (e.block_number = f.block_number /\ e.address = f.address)
                              => KeyPlace(e.key) < KeyPlace(f.key)
        /\ \A i \in 1..Len(pre.bundle.reverts), address \in Addresses :
               LET changes == StorageChanges(tx, first_block + (i - 1), address)
               IN  \A p, q \in 1..Len(changes) :
                       p < q => KeyPlace(changes[p].key) < KeyPlace(changes[q].key)

\* A block committed slot k2 of a1 and then slot k1, and its change-set holds k1
\* before k2.
C34_Witness ==
    /\ Written
    /\ \E i \in 1..Len(pre.bundle.reverts) :
           LET changes == StorageChanges(tx, first_block + (i - 1), "a1")
           IN  /\ FirstCommit(i, "a1", "k2") > 0
               /\ FirstCommit(i, "a1", "k1") > FirstCommit(i, "a1", "k2")
               /\ Len(changes) = 2
               /\ changes[1].key = "k1"
               /\ changes[2].key = "k2"


\* split_at was called on the bundle of the executed blocks with at strictly inside
\* its range
SplitInside ==
    /\ exec.phase = "taken"
    /\ ops = 1
    /\ ret.op = "split_at"
    /\ pre.first_block < ret.arg
    /\ ret.arg < pre.first_block + Len(pre.receipts)

\* C35: split_at with at strictly inside the range leaves the aggregated entries of
\* the upper half as they were in the original bundle: the same addresses, each with
\* the same present and original account and the same present and original value of
\* every slot; the plain state of the upper half is the plain state of the original,
\* with the changes of the blocks that went to the lower half.
C35_UpperKeepsEntries ==
    SplitInside =>
        /\ ret.result = "ok"
        /\ DOMAIN bundle.state = DOMAIN pre.bundle.state
        /\ \A address \in DOMAIN pre.bundle.state :
               /\ bundle.state[address].info = pre.bundle.state[address].info
               /\ bundle.state[address].original_info
                      = pre.bundle.state[address].original_info
               /\ bundle.state[address].storage = pre.bundle.state[address].storage
        /\ \A is_value_known \in BOOLEAN :
               BundleState_into_plain_state(bundle, is_value_known)
                   = BundleState_into_plain_state(pre.bundle, is_value_known)

\* Two blocks were executed on a database in which slot k2 of a1 is 2; the first wrote
\* 3 to slot k2 of a1 and the second did not touch it; the bundle was split at the second
\* block. The upper half holds the second block only, and its entries hold slot k2
\* with the value the first block wrote, which the plain state of the upper half
\* writes.
C35_Witness ==
    /\ SplitInside
    /\ ret.result = "ok"
    /\ Len(pre.receipts) = 2
    /\ exec.db["a1"].info # None
    /\ exec.db["a1"].storage["k2"] = 2
    /\ WorldAfter(1)["a1"].storage["k2"] = 3
    /\ FirstCommit(2, "a1", "k2") = 0
    /\ Len(bundle.reverts) = 1
    /\ "a1" \in DOMAIN bundle.state
    /\ "k2" \in DOMAIN bundle.state["a1"].storage
    /\ bundle.state["a1"].storage["k2"] = StorageSlot(2, 3)
    /\ LET plain == BundleState_into_plain_state(bundle, TRUE)
       IN  /\ "a1" \in DOMAIN plain.storage
           /\ "k2" \in DOMAIN plain.storage["a1"].storage
           /\ plain.storage["a1"].storage["k2"] = 3


\* The keys the inner loop passes to append for the i-th block: first_tx_num of the
\* block plus the offset of each kept slot
KeysOfBlock(s, bodies, i) ==
    LET slots == s.receipts[i]
        kept == SelectSeq([j \in 1..Len(slots) |-> j], LAMBDA j : slots[j] # None)
    IN  [n \in 1..Len(kept) |->
            bodies[s.first_block + (i - 1)].first_tx_num + (kept[n] - 1)]

\* The keys the loops pass to append if no append fails, in order
KeysPassed(s, bodies) ==
    Flatten([i \in 1..Len(s.receipts) |-> KeysOfBlock(s, bodies, i)])

StrictlyIncreasing(keys) == \A p, q \in 1..Len(keys) : p < q => keys[p] < keys[q]

\* The keys of the receipts table
ReceiptKeys(table) == [e \in 1..Len(table) |-> table[e][1]]

\* The body indices of consecutive blocks are contiguous
Contiguous(bodies) ==
    \A b \in DOMAIN bodies :
        (b + 1) \in DOMAIN bodies
            => bodies[b + 1].first_tx_num = bodies[b].first_tx_num + bodies[b].tx_count

\* No block of the bundle holds more receipt slots than the block has transactions
Fits(s, bodies) ==
    \A i \in 1..Len(s.receipts) :
        Len(s.receipts[i]) <= bodies[s.first_block + (i - 1)].tx_count

ChangeSetBlocks(t) ==
    { t.AccountChangeSet[e].block_number : e \in 1..Len(t.AccountChangeSet) }
        \cup { t.StorageChangeSet[e].block_number : e \in 1..Len(t.StorageChangeSet) }

\* C37: a bundle with no receipt block, whatever revert layers it holds, has len 0
\* and is empty; no block number is addressable in it and revert_to returns false
\* for every block number, leaving it as it was; a write_to_db of it that returns Ok
\* has written the change-sets of one block per revert layer, numbered from
\* first_block on.
C37_LenCountsReceiptBlocks ==
    pre.receipts = <<>> =>
        /\ len(pre) = 0
        /\ is_empty(pre)
        /\ \A n \in 0..MaxBlockNumber :
               /\ block_number_to_index(pre, n) = None
               /\ ~revert_to(pre, n).result
        /\ ret.op = "revert_to" => ret.result = "false" /\ Self = pre
        /\ ret.op = "query" => ret.value.index = None
        /\ (ret.op = "write_to_db" /\ ret.result = "ok")
               => ChangeSetBlocks(tx) =
                      { pre.first_block + (i - 1) : i \in 1..Len(pre.bundle.reverts) }

\* A bundle of two revert layers and no receipt block was written at first block 1:
\* the change-sets of blocks 1 and 2 were written.
C37_Witness ==
    /\ pre.receipts = <<>>
    /\ Len(pre.bundle.reverts) = 2
    /\ pre.first_block = 1
    /\ ret.op = "write_to_db"
    /\ ret.result = "ok"
    /\ ChangeSetBlocks(tx) = {1, 2}
    /\ Len(tx.AccountChangeSet) = 2


\* C38: receipts_by_block(n) returns the receipt slots of block n, a pruned slot as
\* None, when n is addressable, and the empty slice when it is not, where logs,
\* block_logs_bloom and receipts_root_slow return None; for an addressable block
\* without a slot it returns the empty slice as well, where logs and
\* block_logs_bloom return Some, so its result alone does not tell the two apart.
C38_ByBlockNeverNotFound ==
    ret.op = "query" =>
        /\ Addressable(pre, ret.arg)
               => /\ ret.value.by_block = pre.receipts[ret.arg - pre.first_block + 1]
                  /\ ret.value.logs # None
                  /\ ret.value.bloom # None
                  /\ ret.value.by_block = <<>>
                         => /\ ret.value.logs = Some(<<>>)
                            /\ \A n \in 0..MaxBlockNumber :
                                   ~Addressable(pre, n)
                                       => /\ receipts_by_block(pre, n) = ret.value.by_block
                                          /\ logs(pre, n) # ret.value.logs
        /\ ~Addressable(pre, ret.arg)
               => /\ ret.value.by_block = <<>>
                  /\ ret.value.index = None
                  /\ ret.value.logs = None
                  /\ ret.value.bloom = None
                  /\ ret.value.root = None

\* The second of two blocks has no slot and the first has a pruned one: the query of
\* the second block returns the empty slice, as the query of the block after it
\* does, and the query of the first returns its slots with the pruned one.
C38_Witness ==
    /\ ret.op = "query"
    /\ Len(pre.receipts) = 2
    /\ pre.receipts[1] = <<None, Some(Receipt2)>>
    /\ pre.receipts[2] = <<>>
    /\ ret.arg = pre.first_block + 1
    /\ ret.value.by_block = <<>>
    /\ ret.value.logs = Some(<<>>)
    /\ receipts_by_block(pre, pre.first_block + 2) = <<>>
    /\ logs(pre, pre.first_block + 2) = None
    /\ receipts_by_block(pre, pre.first_block) = <<None, Some(Receipt2)>>


\* ------------------------------------------------------------------------
\* examples/additional-rpc-namespace-in-cli: the stateSubscriberExt namespace. The
\* node's state is kept in exec: the flag of the command line, the methods of the
\* RPC modules, the calls of state_subscription, the notifications the canonical
\* state stream has carried, and the messages sent to subscription sinks
\* ------------------------------------------------------------------------

\* The notifications the provider sends
MaxNotifications == 2

\* The method the rpc macro derives from the subscription of the namespace
StateSubscriptionMethod == "stateSubscriberExt_stateSubscription"

\* SealedBlockWithSenders values: hash, parent hash and number
SealedBlocks ==
    [n \in 1..2 |-> [ hash |-> IF n = 1 THEN "b1" ELSE "b2",
                      parent_hash |-> IF n = 1 THEN "b0" ELSE "b1",
                      number |-> n ]]

\* Chain values: the blocks by number, none, one or two, and the state after them,
\* with an account whose info is present or an account whose info is absent next to
\* one whose info is present
Chains ==
    LET info1 == into_revm_acc(Account1)
        info2 == into_revm_acc(Account2)
        present == BundleAccount(None, Some(info1), EmptyMap, "InMemoryChange")
        absent == BundleAccount(Some(info2), None, EmptyMap, "Destroyed")
        states == { [a \in {"a1"} |-> present],
                    [a \in {"a1", "a2"} |-> IF a = "a1" THEN absent ELSE present] }
    IN  { [ blocks |-> [n \in 1..k |-> SealedBlocks[n]],
            state  |-> new([state |-> st, reverts |-> <<>>], <<>>, 1) ] :
          k \in 0..2, st \in states }

\* CanonStateNotification values
CanonStateNotifications ==
    { [kind |-> "Commit", new |-> c] : c \in Chains }
        \cup { [kind |-> "Reorg", old |-> c, new |-> c] :
                 c \in { x \in Chains : DOMAIN x.blocks = 1..1 } }

\* BTreeMap::last_key_value on the blocks of a chain: the entry of the highest block
\* number
last_key_value(blocks) ==
    IF DOMAIN blocks = {} THEN None
    ELSE LET n == CHOOSE x \in DOMAIN blocks : \A y \in DOMAIN blocks : y <= x
         IN  Some(<<n, blocks[n]>>)

\* serde_json::to_string
serde_json_to_string(value) == <<"json", value>>

\* The closure state_subscription passes to map: the message it sends to the sink
\* for an update, if it sends one
state_subscription_map(update) ==
    IF update.kind = "Commit"
    THEN LET latest_block == last_key_value(update.new.blocks)
             accounts == update.new.state.bundle.state
         IN  IF latest_block = None THEN None
             ELSE Some(serde_json_to_string(
                      [ block |-> [ hash |-> Unwrap(latest_block)[2].hash,
                                    parent_hash |-> Unwrap(latest_block)[2].parent_hash,
                                    number |-> Unwrap(latest_block)[2].number ],
                        accounts_states |->
                            [address \in DOMAIN accounts |->
                                [ info |-> IF accounts[address].info # None
                                           THEN Some([ balance |->
                                                           Unwrap(accounts[address].info).balance,
                                                       nonce |->
                                                           Unwrap(accounts[address].info).nonce ])
                                           ELSE None,
                                  storage |-> EmptyMap ]] ]))
    ELSE None

\* RethCliStateSubscriberExt::extend_rpc_modules: the methods of the modules after
\* the call
extend_rpc_modules(enable_ext, modules) ==
    IF ~enable_ext THEN modules ELSE modules \cup {StateSubscriptionMethod}

\* StateSubscriberExt::state_subscription: the stream adaptor built by map is bound
\* to `_` and dropped unpolled, no task is spawned and the sink is not accepted; the
\* call returns Ok(()) and leaves no stream that would run the closure
state_subscription(streams, since) ==
    LET mapped == [since |-> since, map |-> "state_subscription_map"]
        dropped == {mapped}
    IN  [result |-> "ok", streams |-> (streams \cup {mapped}) \ dropped]

\* The command line was parsed: the flag is set or not
InitSubscriber ==
    \E enable_ext \in BOOLEAN :
        /\ bundle = BundleState_default
        /\ receipts = <<>>
        /\ first_block = 0
        /\ ret = Returned("parse", enable_ext, "ok", None)
        /\ pre = Self
        /\ prev = None
        /\ ops = 0
        /\ tx = None
        /\ exec = [ phase |-> "cli", enable_ext |-> enable_ext, modules |-> {},
                    subscribed |-> None, streams |-> {}, notifications |-> <<>>,
                    messages |-> <<>> ]

\* The node starts its RPC server
ExtendRpcModules ==
    /\ exec.phase = "cli"
    /\ exec' = [exec EXCEPT !.phase = "serving",
                            !.modules = extend_rpc_modules(exec.enable_ext, @)]
    /\ ret' = Returned("extend_rpc_modules", exec.enable_ext, "ok", None)
    /\ UNCHANGED <<bundle, receipts, first_block, pre, prev, ops, tx>>

\* A client calls the subscription method, which the server has
StateSubscription ==
    /\ exec.phase = "serving"
    /\ StateSubscriptionMethod \in exec.modules
    /\ exec.subscribed = None
    /\ LET r == state_subscription(exec.streams, Len(exec.notifications))
       IN  /\ exec' = [exec EXCEPT !.subscribed = Some(Len(exec.notifications)),
                                   !.streams = r.streams]
           /\ ret' = Returned("state_subscription", Len(exec.notifications), r.result, None)
    /\ UNCHANGED <<bundle, receipts, first_block, pre, prev, ops, tx>>

\* The provider sends a notification on the canonical state stream: every stream
\* that lives takes it through its closure
CanonStateNotify(update) ==
    /\ exec.phase = "serving"
    /\ Len(exec.notifications) < MaxNotifications
    /\ exec' = [exec EXCEPT !.notifications = Append(@, update),
                            !.messages =
                                IF exec.streams = {} \/ state_subscription_map(update) = None
                                THEN @
                                ELSE Append(@, [ notification |-> Len(exec.notifications) + 1,
                                                 text |-> Unwrap(state_subscription_map(update)) ])]
    /\ ret' = Returned("notify", update.kind, "ok", None)
    /\ UNCHANGED <<bundle, receipts, first_block, pre, prev, ops, tx>>

NextSubscriber ==
    \/ ExtendRpcModules
    \/ StateSubscription
    \/ \E update \in CanonStateNotifications : CanonStateNotify(update)

\* The server and the provider run: a step that can be taken is taken
SpecSubscriber == InitSubscriber /\ [][NextSubscriber]_vars /\ WF_vars(NextSubscriber)

\* The messages sent for the i-th notification
MessagesOf(i) == SelectSeq(exec.messages, LAMBDA m : m.notification = i)

\* The i-th notification came after a client subscribed, and is a Commit of a chain
\* with at least one block
CommitAfterSubscription(i) ==
    /\ exec.subscribed # None
    /\ i > Unwrap(exec.subscribed)
    /\ i <= Len(exec.notifications)
    /\ exec.notifications[i].kind = "Commit"
    /\ DOMAIN exec.notifications[i].new.blocks # {}

\* Exactly one message was sent for the i-th notification, with the hash, the parent
\* hash and the number of the highest block of the chain and one entry per address
\* of its state, the info present iff the info of the account is
OneMessageOf(i) ==
    /\ Len(MessagesOf(i)) = 1
    /\ LET chain == exec.notifications[i].new
           response == MessagesOf(i)[1].text[2]
           tip == chain.blocks[Len(chain.blocks)]
       IN  /\ response.block =
                  [hash |-> tip.hash, parent_hash |-> tip.parent_hash, number |-> tip.number]
           /\ DOMAIN response.accounts_states = DOMAIN chain.state.bundle.state
           /\ \A address \in DOMAIN chain.state.bundle.state :
                  response.accounts_states[address].info # None
                      <=> chain.state.bundle.state[address].info # None

\* C39: the subscription method is among the methods of the server only if
\* enable_ext is set; every Commit notification of at least one block that comes
\* after a client subscribed leads to exactly one message with the hash, parent hash
\* and number of the highest block and an entry per address of the new state; no
\* message is ever sent for a Reorg notification.
C39_CommitLeadsToMessage ==
    /\ [](StateSubscriptionMethod \in exec.modules => exec.enable_ext)
    /\ \A i \in 1..MaxNotifications : CommitAfterSubscription(i) ~> OneMessageOf(i)
    /\ [](\A i \in 1..Len(exec.notifications) :
              exec.notifications[i].kind = "Reorg" => MessagesOf(i) = <<>>)

====
